---- MODULE Spec2Model ----
(***************************************************************************)
(* The continuous synchronisation engine of goParse: the enhanced monitor  *)
(* (EnhancedMonitor / EnhancedMonitorV2) on top of the base Monitor, with  *)
(* its FileTracker, DiffAnalyzer, BatchProcessor and MetricsCollector.     *)
(*                                                                         *)
(* Go maps are functions whose DOMAIN is the set of keys present.          *)
(***************************************************************************)
EXTENDS Integers, Sequences, FiniteSets, TLC

\* ---------------------------------------------------------------- bounds
\* number of writes / removals the environment performs on the tree
MaxDiskOps == 2
\* the same while batching is on
MaxBatchDiskOps == 1
\* number of events the watcher and the scanner deliver
MaxEvents == 3
\* number of stop-and-restart cycles
MaxRestarts == 1
\* events delivered by the watcher and not yet handled
MaxQueue == 2
\* calls made on the DiffAnalyzer, or of applyParse, in one behaviour
MaxCalls == 2
\* commits made in the working copy after the monitor started
MaxCommits == 2
\* lines in the output of a git query
MaxLines == 1

\* ------------------------------------------------------------- universe
RootPath == "/t"
Paths == {"/t/a.ts", "/t/b.ts"}
\* file bodies: 1 and 2 differ only cosmetically, 3 moves a function
Contents == {1, 2, 3}
\* modification times, in seconds
Mtimes == {1, 2}
\* the bodies and times written to a file: a.ts takes them all, b.ts one
Bodies(p) == IF p = "/t/a.ts" THEN Contents ELSE {1}
Times(p) == IF p = "/t/a.ts" THEN Mtimes ELSE {1}
\* the bodies written while batching is on
BatchBodies(p) == Bodies(p) \ {2}
\* which upserts the sink refuses during one processing: none, or those of f
SinkFailures == {{}, {"f"}}

\* ------------------------------------------------------------ Go maps
EmptyMap == <<>>
Put(m, k, v) == [x \in (DOMAIN m) \cup {k} |-> IF x = k THEN v ELSE m[x]]
Del(m, k) == [x \in (DOMAIN m) \ {k} |-> m[x]]

\* a set of records as a sequence, in one fixed order
RECURSIVE SetToSeq(_)
SetToSeq(S) ==
    IF S = {} THEN <<>>
    ELSE LET x == CHOOSE y \in S : TRUE IN <<x>> \o SetToSeq(S \ {x})

\* all the orders in which a set can be listed (Go iterates maps in any order)
RECURSIVE Orders(_)
Orders(S) ==
    IF S = {} THEN {<<>>}
    ELSE UNION {{<<x>> \o s : s \in Orders(S \ {x})} : x \in S}

Range(s) == {s[i] : i \in DOMAIN s}

\* filepath.Rel(rootPath, filePath) for the files of the tree
Rel(p) == IF p = "/t/a.ts" THEN "a.ts" ELSE "b.ts"

\* ------------------------------------------------------------ the parser
FunctionEntity(name, p, line) ==
    [Name |-> name, FilePath |-> p, StartLine |-> line, EndLine |-> line + 2,
     Signature |-> "()", IsAsync |-> FALSE, IsExport |-> TRUE]

ClassEntity(name, p, line, methods) ==
    [Name |-> name, FilePath |-> p, StartLine |-> line, EndLine |-> line + 4,
     IsExport |-> TRUE, IsAbstract |-> FALSE, Methods |-> methods]

InterfaceEntity(name, p, props) ==
    [Name |-> name, FilePath |-> p, IsExport |-> TRUE, Properties |-> props]

\* TreeSitterDriver.Parse on a readable file: a function of the path and the
\* bytes.  Bodies 1 and 2 differ only cosmetically (same entities), body 3
\* moves f, a later body would add a second function g.
Parse(p, bytes) ==
    [FilePath |-> p,
     Language |-> "ts",
     Funcs    |-> <<FunctionEntity("f", p, (bytes + 1) \div 2)>> \o
                  (IF bytes >= 4 THEN <<FunctionEntity("g", p, bytes)>> ELSE <<>>),
     Imports  |-> <<[Module |-> "m", FilePath |-> p]>>,
     Classes  |-> <<>>,
     Interfaces |-> <<>>]

\* ---------------------------------------------------------- FileTracker
NewFileTracker == EmptyMap

\* calculateHash: hex(md5(file body)); path and mtime do not enter
calculateHash(bytes) == <<"md5", bytes>>

\* HasChanged: "error" is (false, err) of a failed stat / read
HasChanged(st, dk, p) ==
    IF p \notin DOMAIN dk THEN "error"
    ELSE IF p \notin DOMAIN st THEN "yes"
    ELSE IF st[p].Hash # calculateHash(dk[p].bytes) \/ st[p].Modified # dk[p].mtime
         THEN "yes" ELSE "no"

\* an UpdateState that records nothing
UpdateStateSkipped(st, dk, p) == st

\* UpdateState: on a stat / read error the map is left alone
UpdateState(st, dk, p) ==
    IF p \notin DOMAIN dk THEN st
    ELSE Put(st, p, [Path |-> p, Hash |-> calculateHash(dk[p].bytes),
                     Modified |-> dk[p].mtime])

RemoveState(st, p) == Del(st, p)

\* json.MarshalIndent / json.Unmarshal of one FileState
MarshalState(s) == [path |-> s.Path, hash |-> s.Hash, modified |-> s.Modified]
UnmarshalState(j) == [Path |-> j.path, Hash |-> j.hash, Modified |-> j.modified]

\* SaveState: the files SaveState can write, one per iteration order of the map
SaveState(st) ==
    {[present |-> TRUE, data |-> [i \in DOMAIN s |-> MarshalState(s[i])]] :
        s \in Orders({st[p] : p \in DOMAIN st})}

NoStateFile == [present |-> FALSE, data |-> <<>>]

\* LoadState: every record of the file is stored under its own Path
RECURSIVE LoadRecords(_, _)
LoadRecords(st, data) ==
    IF data = <<>> THEN st
    ELSE LET s == UnmarshalState(Head(data))
         IN  LoadRecords(Put(st, s.Path, s), Tail(data))

\* a LoadState that never reads the file
LoadStateSkipped(st, file) == st

LoadState(st, file) ==
    IF ~file.present THEN st ELSE LoadRecords(st, file.data)

GetAllStates(st) == {st[p] : p \in DOMAIN st}

\* --------------------------------------------------------- DiffAnalyzer
NewDiffAnalyzer == EmptyMap

\* a map of the entities keyed by their position in the list
FuncMapByPosition(m, funcs) == [i \in DOMAIN funcs |-> funcs[i]]

\* oldMap / newMap of analyzeFunctionChanges: keyed by Name, a later entity
\* of the same name replaces an earlier one
RECURSIVE FuncMap(_, _)
FuncMap(m, funcs) ==
    IF funcs = <<>> THEN m
    ELSE FuncMap(Put(m, Head(funcs).Name, Head(funcs)), Tail(funcs))

\* a comparison that finds every pair of functions different
functionsEqualNever(f1, f2) == FALSE

\* a comparison for which the lines of a function do not count
functionsEqualIgnoringLines(f1, f2) ==
    /\ f1.Signature = f2.Signature
    /\ f1.IsAsync = f2.IsAsync
    /\ f1.IsExport = f2.IsExport

functionsEqual(f1, f2) ==
    /\ f1.StartLine = f2.StartLine
    /\ f1.EndLine = f2.EndLine
    /\ f1.Signature = f2.Signature
    /\ f1.IsAsync = f2.IsAsync
    /\ f1.IsExport = f2.IsExport

\* the three lists are built by ranging over Go maps; one order is kept here
analyzeFunctionChanges(oldFuncs, newFuncs) ==
    LET oldMap == FuncMap(EmptyMap, oldFuncs)
        newMap == FuncMap(EmptyMap, newFuncs)
        both   == (DOMAIN newMap) \cap (DOMAIN oldMap)
    IN  [added    |-> SetToSeq({newMap[n] : n \in (DOMAIN newMap) \ (DOMAIN oldMap)}),
         modified |-> SetToSeq({newMap[n] :
                         n \in {k \in both : ~functionsEqual(oldMap[k], newMap[k])}}),
         removed  |-> SetToSeq({oldMap[n] : n \in (DOMAIN oldMap) \ (DOMAIN newMap)})]

classesEqual(c1, c2) ==
    /\ c1.StartLine = c2.StartLine
    /\ c1.EndLine = c2.EndLine
    /\ c1.IsExport = c2.IsExport
    /\ c1.IsAbstract = c2.IsAbstract
    /\ c1.Methods = c2.Methods

\* analyzeClassChanges: as for functions, with oldMap / newMap keyed by Name
analyzeClassChanges(oldClasses, newClasses) ==
    LET oldMap == FuncMap(EmptyMap, oldClasses)
        newMap == FuncMap(EmptyMap, newClasses)
        both   == (DOMAIN newMap) \cap (DOMAIN oldMap)
    IN  [added    |-> SetToSeq({newMap[n] : n \in (DOMAIN newMap) \ (DOMAIN oldMap)}),
         modified |-> SetToSeq({newMap[n] :
                         n \in {k \in both : ~classesEqual(oldMap[k], newMap[k])}}),
         removed  |-> SetToSeq({oldMap[n] : n \in (DOMAIN oldMap) \ (DOMAIN newMap)})]

hasChanges(d) == Len(d.added) > 0 \/ Len(d.modified) > 0 \/ Len(d.removed) > 0

\* an assignment to the cache that stores nothing
cacheParseSkipped(c, filePath, newParse) == c

\* da.cache[filePath] = &CachedParse{ParsedFile: newParse}
cacheParse(c, filePath, newParse) == Put(c, filePath, [ParsedFile |-> newParse])

\* AnalyzeChanges: the delta, the has-changes flag and the cache afterwards.
\* Only functions and classes are compared with the cached parse.
AnalyzeChanges(c, filePath, newParse) ==
    IF filePath \notin DOMAIN c
    THEN [changes    |-> [FilePath |-> filePath,
                          AddedFunctions |-> newParse.Funcs,
                          ModifiedFunctions |-> <<>>,
                          RemovedFunctions |-> <<>>,
                          AddedClasses |-> newParse.Classes,
                          ModifiedClasses |-> <<>>,
                          RemovedClasses |-> <<>>,
                          AddedInterfaces |-> newParse.Interfaces,
                          ModifiedInterfaces |-> <<>>,
                          RemovedInterfaces |-> <<>>,
                          AddedImports |-> newParse.Imports,
                          RemovedImports |-> <<>>],
          hasChanges |-> TRUE,
          cache      |-> cacheParse(c, filePath, newParse)]
    ELSE LET oldParse == c[filePath].ParsedFile
             funcChanges == analyzeFunctionChanges(oldParse.Funcs, newParse.Funcs)
             classChanges == analyzeClassChanges(oldParse.Classes, newParse.Classes)
             changed == hasChanges(funcChanges) \/ hasChanges(classChanges)
         IN  [changes    |-> [FilePath |-> filePath,
                              AddedFunctions |-> funcChanges.added,
                              ModifiedFunctions |-> funcChanges.modified,
                              RemovedFunctions |-> funcChanges.removed,
                              AddedClasses |-> classChanges.added,
                              ModifiedClasses |-> classChanges.modified,
                              RemovedClasses |-> classChanges.removed,
                              AddedInterfaces |-> <<>>,
                              ModifiedInterfaces |-> <<>>,
                              RemovedInterfaces |-> <<>>,
                              AddedImports |-> <<>>,
                              RemovedImports |-> <<>>],
              hasChanges |-> changed,
              cache      |-> IF changed
                             THEN cacheParse(c, filePath, newParse)
                             ELSE c]

RemoveFromCache(c, filePath) == Del(c, filePath)

\* ------------------------------------------------------- sink operations
\* one call on the GraphClient: what is upserted and whether the sink accepted
SinkOp(op, file, name, fails) ==
    [op |-> op, file |-> file, name |-> name, ok |-> name \notin fails]

\* a loop over the functions that stops at the first refused upsert
UpsertFunctionsAborting(funcs, fails) ==
    LET refused == {i \in DOMAIN funcs : funcs[i].Name \in fails}
        last == IF refused = {} THEN Len(funcs)
                ELSE CHOOSE i \in refused : \A j \in refused : i <= j
    IN  [i \in 1..last |->
            SinkOp("UpsertFunction", funcs[i].FilePath, funcs[i].Name, fails)]

UpsertFunctions(funcs, fails) ==
    [i \in DOMAIN funcs |->
        SinkOp("UpsertFunction", funcs[i].FilePath, funcs[i].Name, fails)]

UpsertImports(imps, fails) ==
    [i \in DOMAIN imps |->
        SinkOp("UpsertImport", imps[i].FilePath, imps[i].Module, fails)]

\* Monitor.updateEmbeddings: one ProcessFile call on the embedding generator
\* with the functions of the parse
updateEmbeddings(pf, fails) ==
    <<[op |-> "ProcessFile", file |-> pf.FilePath, name |-> "embeddings",
       ok |-> "embeddings" \notin fails]>>

\* Monitor.updateEntities: functions, then imports, then the embeddings when
\* a generator is configured; a failure is logged only
updateEntities(pf, fails, embeddingGen) ==
    UpsertFunctions(pf.Funcs, fails) \o UpsertImports(pf.Imports, fails) \o
    (IF embeddingGen THEN updateEmbeddings(pf, fails) ELSE <<>>)

\* EnhancedMonitor.applyEntityChanges: added, then modified functions;
\* removed functions are logged only
applyEntityChanges(changes, fails) ==
    UpsertFunctions(changes.AddedFunctions, fails) \o
    UpsertFunctions(changes.ModifiedFunctions, fails)

\* ------------------------------------------------------------- the state
VARIABLES
    disk,            \* the tree: path -> [bytes, mtime] of the files that exist
    stateFile,       \* <root>/.goparse_state.json
    cfg,             \* EnhancedConfig: [batching, diff]
    phase,           \* "running" | "stopped"
    states,          \* FileTracker.states
    cache,           \* DiffAnalyzer.cache
    isPaused,        \* EnhancedMonitor.isPaused
    metrics,         \* MetricsCollector: filesProcessed, changesDetected, errors
    pendingChanges,  \* BatchProcessor.pendingChanges
    flushChan,       \* BatchProcessor.flushChan: number of buffered signals (0 or 1)
    bp,              \* the flush in progress: [pc, changes, idx, err]
    bm,              \* BatchMetrics: TotalBatches, TotalChanges, Errors
    tasks,           \* watcher and scanner task: [pc, path]
    clock,           \* time.Now() of the next FileChange
    budget,          \* what is left of MaxDiskOps, MaxEvents, MaxRestarts
    sinkLog,         \* the sink calls made by the step that led to this state
    obs,             \* what the handler run by that step saw and did (history)
    hist,            \* history: the tracker at the last save, the events added
                     \* in the flush window, the failures of each event
    flushDue,        \* time.Since(bp.lastFlush) >= bp.flushInterval
    watch,           \* the directories of the tree and the fsnotify watcher
    diffCall,        \* the last call on the DiffAnalyzer or of applyParse, with
                     \* its arguments and results (history)
    flushers,        \* the flush goroutines started by Add in the coalescer
                     \* without flush channel: [spawned, processing]
    git              \* the working copy and the GitIntegration: [head,
                     \* lastCommit, queue, last]

vars == <<disk, stateFile, cfg, phase, states, cache, isPaused, metrics,
          pendingChanges, flushChan, bp, bm, tasks, clock, budget, sinkLog, obs, hist,
          flushDue, watch, diffCall, flushers, git>>

\* ------------------------------------------------- EnhancedMonitor, pure
NewMetricsCollector == [filesProcessed |-> 0, changesDetected |-> 0, errors |-> 0]

RecordFileProcessed(m) == [m EXCEPT !.filesProcessed = @ + 1]
\* a RecordError that counts nothing
RecordErrorDropped(m) == m

RecordError(m) == [m EXCEPT !.errors = @ + 1]
RecordChange(m) == [m EXCEPT !.changesDetected = @ + 1]

\* the part of the engine processFileImmediate reads and writes
Engine == [states |-> states, cache |-> cache, metrics |-> metrics, ops |-> <<>>]

\* main's default: no embedding generator (-embeddings is off)
NoEmbeddingGen == FALSE

\* processFileImmediate from the parse on: diff or full upsert, then the
\* fingerprint.  diff: a DiffAnalyzer is configured; embeddingGen: an
\* embedding generator is configured.
applyParse(e, filePath, pf, diff, embeddingGen, fails) ==
    IF diff
    THEN LET r == AnalyzeChanges(e.cache, filePath, pf) IN
         IF ~r.hasChanges THEN e
         ELSE [e EXCEPT !.cache  = r.cache,
                        !.ops    = applyEntityChanges(r.changes, fails),
                        !.states = UpdateState(@, disk, filePath)]
    ELSE [e EXCEPT !.ops    = updateEntities(pf, fails, embeddingGen),
                   !.states = UpdateState(@, disk, filePath)]

\* processFileImmediate on engine e for filePath; parseOk: the parser succeeds,
\* fails: the names whose upsert the sink refuses
processFileImmediate(e, filePath, parseOk, fails) ==
    LET changed == HasChanged(e.states, disk, filePath) IN
    IF changed = "error" THEN [e EXCEPT !.metrics = RecordError(@)]
    ELSE IF changed = "no" THEN e
    ELSE
      LET e1 == [e EXCEPT !.metrics = RecordChange(@)] IN
      IF ~parseOk THEN [e1 EXCEPT !.metrics = RecordError(@)]
      ELSE
        LET pf == [Parse(filePath, disk[filePath].bytes) EXCEPT !.FilePath = Rel(filePath)] IN
        applyParse(e1, filePath, pf, cfg.diff, NoEmbeddingGen, fails)

\* Monitor.handleRemoval: the fingerprint record goes; graph, embeddings and
\* parse cache are not touched
handleRemoval(e, filePath) == [e EXCEPT !.states = RemoveState(@, filePath)]

\* -------------------------------------------------- BatchProcessor, pure
FileChange(path, now) == [Path |-> path, Type |-> "Modify", Timestamp |-> now, Retries |-> 0]

\* Add, under the lock: latest change wins
AddChange(pending, change) == Put(pending, change.Path, change)

\* the non-blocking send on a channel of capacity 1
TrySend(ch) == IF ch < 1 THEN ch + 1 ELSE ch

\* the size threshold N of the coalescer: every path of the tree pending
BatchSize == Cardinality(Paths)

\* --------------------------------------------------------------- history
NoObs == [kind |-> "none", path |-> "", paused |-> FALSE,
          sameBytes |-> FALSE, unchanged |-> FALSE, touched |-> FALSE,
          nOps |-> 0, dChanges |-> 0, dErrors |-> 0, fpBefore |-> 0,
          failed |-> FALSE, err |-> FALSE, dBatchErrors |-> 0, requeued |-> FALSE,
          sameParse |-> FALSE, parseFailed |-> FALSE, committed |-> FALSE]

\* the fingerprint of p holds the hash of the bytes p has now
SameBytes(p) ==
    /\ p \in DOMAIN disk
    /\ p \in DOMAIN states
    /\ states[p].Hash = calculateHash(disk[p].bytes)

\* the parse cache holds for p a parse with the entities p parses to now
SameParse(p) ==
    /\ p \in DOMAIN disk
    /\ p \in DOMAIN cache
    /\ LET pf == Parse(p, disk[p].bytes)
       IN  /\ cache[p].ParsedFile.Funcs = pf.Funcs
           /\ cache[p].ParsedFile.Imports = pf.Imports
           /\ cache[p].ParsedFile.Classes = pf.Classes
           /\ cache[p].ParsedFile.Interfaces = pf.Interfaces

\* what a handler of kind k for p did: e is the engine after it
Observe(k, p, e) ==
    [NoObs EXCEPT
       !.kind      = k,
       !.path      = p,
       !.paused    = isPaused,
       !.sameBytes = SameBytes(p),
       !.unchanged = (HasChanged(states, disk, p) = "no"),
       !.touched   = (e.states # states \/ e.cache # cache),
       !.nOps      = Len(e.ops),
       !.dChanges  = e.metrics.changesDetected - metrics.changesDetected,
       !.dErrors   = e.metrics.errors - metrics.errors,
       !.fpBefore  = metrics.filesProcessed,
       !.sameParse = SameParse(p),
       !.committed = (e.states # states)]

\* a step that runs no handler
Quiet == obs' = NoObs /\ sinkLog' = <<>>

\* the process has been restarted on a saved state file
Restarted == budget.restarts < MaxRestarts

\* saved:  the tracker and the tree at the last SaveState
\* loaded: the tracker is what LoadState made of the state file
\* added:  the last change added for each path since the last flush
\* window: added, as it was when the batch in progress was taken
\* fails:  Timestamp of a change -> its path and the failed batches it was in
\* pfails: path -> failed batches in a row it was in
\* burst:  the changes added for distinct paths one after the other, with no
\*         flush interval elapsing in between
\* early:  a change of the burst was flushed before the burst had BatchSize
\*         paths
\* removed: the paths whose last delivered event is a removal, handled
NoHist == [saved |-> [states |-> EmptyMap, disk |-> EmptyMap], loaded |-> FALSE,
           added |-> EmptyMap, window |-> EmptyMap, fails |-> EmptyMap,
           pfails |-> EmptyMap, burst |-> EmptyMap, early |-> FALSE,
           removed |-> {}]

\* the history after change was added
HistAfterAdd(h, change) ==
    [h EXCEPT !.added = Put(@, change.Path, change),
              !.burst = IF change.Path \in DOMAIN @
                        THEN Put(EmptyMap, change.Path, change)
                        ELSE Put(@, change.Path, change),
              !.early = IF change.Path \in DOMAIN h.burst THEN FALSE ELSE @]

\* the history after the pending changes were taken as a batch
HistAfterTake(h, pending, size) ==
    LET n == Cardinality(DOMAIN h.burst) IN
    [h EXCEPT !.added = EmptyMap,
              !.window = h.added,
              !.burst = IF n >= size THEN EmptyMap ELSE @,
              !.early = IF n >= size THEN FALSE
                        ELSE @ \/ \E q \in DOMAIN h.burst :
                                    q \in DOMAIN pending /\ pending[q] = h.burst[q]]

Get(m, k, d) == IF k \in DOMAIN m THEN m[k] ELSE d

\* no call made yet; latest: path -> the last parse of the path for which
\* AnalyzeChanges returned true
NoCall == [kind |-> "none", n |-> 0, latest |-> EmptyMap]

\* The watcher's view of the tree under the root.
\* dirs:    the directories that exist
\* files:   the files that exist in them
\* watched: the directories the watcher has a watch on
\* events:  the file-system events delivered and not yet handled
\* started: "init" before Start, then "running", or "failed" when Start
\*          returned an error
\* created: the directories created since Start returned
\* handled: the files that were passed to the fileHandler
\* failed:  the directories whose watch could not be added
\* NoWatch is a started monitor with nothing but the root, which is watched.
NoWatch == [dirs |-> {RootPath}, files |-> {}, watched |-> {RootPath},
            events |-> <<>>, started |-> "running", created |-> {},
            handled |-> {}, failed |-> {}]

\* no flush goroutine started by Add
NoFlushers == [spawned |-> 0, processing |-> {}]

\* git integration off
\* head:       HEAD of the working copy
\* lastCommit: GitIntegration.lastCommit
\* queue:      the changes GetChangedFiles returned that watchGit has still
\*             to go through
\* last:       the last call of GetChangedFiles (history): tick flips at
\*             every call, stored is lastCommit before it
\* sent:       what watchGit did with the last change it went through
\*             (history)
NoGit == [head |-> 0, lastCommit |-> 0, queue |-> <<>>,
          last |-> [kind |-> "none", tick |-> FALSE, stored |-> 0, head |-> 0],
          sent |-> [event |-> "none", path |-> ""]]

IdleTask == [pc |-> "idle", path |-> ""]
IdleFlush == [pc |-> "idle", changes |-> <<>>, idx |-> 1, failed |-> FALSE]
NewBatchMetrics == [TotalBatches |-> 0, TotalChanges |-> 0, Errors |-> 0]

\* ------------------------------------------------------------------ Init
\* NewEnhancedMonitor and Start on tree with no state file; ts: the tasks
\* that deliver events, b: what the environment may do
InitRest(tree, batching, ts, b) ==
    /\ disk = tree
    /\ stateFile = NoStateFile
    /\ cfg \in [batching : {batching}, diff : BOOLEAN]
    /\ hist = NoHist
    /\ flushDue = FALSE
    /\ diffCall = NoCall
    /\ flushers = NoFlushers
    /\ phase = "running"
    /\ states = LoadState(NewFileTracker, NoStateFile)
    /\ cache = NewDiffAnalyzer
    /\ isPaused = FALSE
    /\ metrics = NewMetricsCollector
    /\ pendingChanges = EmptyMap
    /\ flushChan = 0
    /\ bp = IdleFlush
    /\ bm = NewBatchMetrics
    /\ tasks = [t \in ts |-> IdleTask]
    /\ clock = 1
    /\ budget = b
    /\ sinkLog = <<>>
    /\ obs = NoObs

InitWith(tree, batching, ts, b) ==
    /\ InitRest(tree, batching, ts, b)
    /\ watch = NoWatch
    /\ git = NoGit

\* ------------------------------------------------------- the environment
\* a program writes p (new body, or the same body with a later mtime: a touch)
Write(p, c, m) ==
    /\ budget.disk > 0
    /\ p \in DOMAIN disk => (m >= disk[p].mtime /\ <<c, m>> # <<disk[p].bytes, disk[p].mtime>>)
    /\ disk' = Put(disk, p, [bytes |-> c, mtime |-> m])
    /\ budget' = [budget EXCEPT !.disk = @ - 1]
    /\ Quiet
    /\ UNCHANGED <<git, flushers, diffCall, watch, flushDue, hist, stateFile, cfg, phase, states, cache, isPaused, metrics,
                   pendingChanges, flushChan, bp, bm, tasks, clock>>

Remove(p) ==
    /\ budget.disk > 0
    /\ p \in DOMAIN disk
    /\ disk' = Del(disk, p)
    /\ budget' = [budget EXCEPT !.disk = @ - 1]
    /\ Quiet
    /\ UNCHANGED <<git, flushers, diffCall, watch, flushDue, hist, stateFile, cfg, phase, states, cache, isPaused, metrics,
                   pendingChanges, flushChan, bp, bm, tasks, clock>>

\* ------------------------------------------------------ event handling
\* processFile, first half: the pause check.  Called by Monitor.handleEvent
\* (Create, Write, Rename of a file that still exists) on the watcher task
\* and by watchGit (status A, M) on the scanner task.
FileEvent(t, p) ==
    /\ phase = "running"
    /\ tasks[t].pc = "idle"
    /\ budget.events > 0
    /\ budget' = [budget EXCEPT !.events = @ - 1]
    /\ IF isPaused
       THEN /\ obs' = Observe("dropped", p, Engine)
            /\ tasks' = tasks
       ELSE /\ tasks' = [tasks EXCEPT ![t] = [pc |-> "checked", path |-> p]]
            /\ obs' = NoObs
    /\ sinkLog' = <<>>
    /\ UNCHANGED <<git, flushers, diffCall, watch, flushDue, hist, disk, stateFile, cfg, phase, states, cache, isPaused, metrics,
                   pendingChanges, flushChan, bp, bm, clock>>

\* processFile, second half, batching on: BatchProcessor.Add
HandleAdd(t) ==
    /\ tasks[t].pc = "checked"
    /\ cfg.batching
    /\ LET p == tasks[t].path
           pending == AddChange(pendingChanges, FileChange(p, clock))
       IN  /\ pendingChanges' = pending
           /\ flushChan' = IF Cardinality(DOMAIN pending) >= BatchSize
                           THEN TrySend(flushChan) ELSE flushChan
           /\ obs' = Observe("add", p, Engine)
           /\ hist' = HistAfterAdd(hist, FileChange(p, clock))
    /\ sinkLog' = <<>>
    /\ clock' = clock + 1
    /\ tasks' = [tasks EXCEPT ![t] = IdleTask]
    /\ UNCHANGED <<git, flushers, diffCall, watch, flushDue, disk, stateFile, cfg, phase, states, cache, isPaused, metrics,
                   bp, bm, budget>>

\* processFile, second half, batching off: processFileImmediate, then
\* RecordFileProcessed
HandleFile(t, parseOk, fails) ==
    /\ tasks[t].pc = "checked"
    /\ ~cfg.batching
    /\ LET p == tasks[t].path
           e == processFileImmediate(Engine, p, parseOk, fails)
       IN  /\ states' = e.states
           /\ cache' = e.cache
           /\ metrics' = RecordFileProcessed(e.metrics)
           /\ sinkLog' = e.ops
           /\ obs' = [Observe("file", p, e) EXCEPT
                         !.parseFailed = (~parseOk /\ HasChanged(states, disk, p) = "yes")]
    /\ tasks' = [tasks EXCEPT ![t] = IdleTask]
    /\ UNCHANGED <<git, flushers, diffCall, watch, flushDue, hist, disk, stateFile, cfg, phase, isPaused, pendingChanges,
                   flushChan, bp, bm, clock, budget>>

\* Monitor.handleEvent on Remove (and on Rename of a file that is gone) on the
\* watcher task, watchGit on status D on the scanner task: handleRemoval
RemovalEvent(t, p) ==
    /\ phase = "running"
    /\ tasks[t].pc = "idle"
    /\ budget.events > 0
    /\ budget' = [budget EXCEPT !.events = @ - 1]
    /\ LET e == handleRemoval(Engine, p)
       IN  /\ states' = e.states
           /\ cache' = e.cache
           /\ obs' = Observe("removal", p, e)
    /\ sinkLog' = <<>>
    /\ UNCHANGED <<git, flushers, diffCall, watch, flushDue, hist, disk, stateFile, cfg, phase, isPaused, metrics,
                   pendingChanges, flushChan, bp, bm, tasks, clock>>

\* Pause / Resume, under pauseMu
Pause ==
    /\ phase = "running"
    /\ isPaused' = TRUE
    /\ Quiet
    /\ UNCHANGED <<git, flushers, diffCall, watch, flushDue, hist, disk, stateFile, cfg, phase, states, cache, metrics,
                   pendingChanges, flushChan, bp, bm, tasks, clock, budget>>

Resume ==
    /\ phase = "running"
    /\ isPaused' = FALSE
    /\ Quiet
    /\ UNCHANGED <<git, flushers, diffCall, watch, flushDue, hist, disk, stateFile, cfg, phase, states, cache, metrics,
                   pendingChanges, flushChan, bp, bm, tasks, clock, budget>>

\* ------------------------------------------------------ the coalescer
MaxRetries == 3

\* handleFailedBatch, under the lock: every change of the failed batch is
\* re-added with one more retry unless it has reached the retry bound
RECURSIVE handleFailedBatchOffByOne(_, _)
handleFailedBatchOffByOne(pending, changes) ==
    IF changes = <<>> THEN pending
    ELSE LET change == [Head(changes) EXCEPT !.Retries = @ + 1]
         IN  handleFailedBatchOffByOne(
                 IF change.Retries <= MaxRetries
                 THEN Put(pending, change.Path, change) ELSE pending,
                 Tail(changes))

\* a handleFailedBatch that re-adds every change, whatever its retries
RECURSIVE handleFailedBatchUnbounded(_, _)
handleFailedBatchUnbounded(pending, changes) ==
    IF changes = <<>> THEN pending
    ELSE LET change == [Head(changes) EXCEPT !.Retries = @ + 1]
         IN  handleFailedBatchUnbounded(Put(pending, change.Path, change), Tail(changes))

RECURSIVE handleFailedBatch(_, _)
handleFailedBatch(pending, changes) ==
    IF changes = <<>> THEN pending
    ELSE LET change == [Head(changes) EXCEPT !.Retries = @ + 1]
         IN  handleFailedBatch(
                 IF change.Retries < MaxRetries
                 THEN Put(pending, change.Path, change) ELSE pending,
                 Tail(changes))

\* updateMetrics
updateMetrics(m, batchSize, isError) ==
    [TotalBatches |-> m.TotalBatches + 1,
     TotalChanges |-> m.TotalChanges + batchSize,
     Errors       |-> IF isError THEN m.Errors + 1 ELSE m.Errors]

\* flush, under the lock: pending is copied into a slice (in the order the map
\* happens to be ranged over) and reset
TakeBatch ==
    /\ pendingChanges # EmptyMap
    /\ \E changes \in Orders({pendingChanges[p] : p \in DOMAIN pendingChanges}) :
          bp' = [pc |-> "processing", changes |-> changes, idx |-> 1, failed |-> FALSE]
    /\ pendingChanges' = EmptyMap
    /\ flushDue' = FALSE
    /\ hist' = HistAfterTake(hist, pendingChanges, BatchSize)

\* the flush interval elapses since bp.lastFlush
IntervalElapses ==
    /\ cfg.batching
    /\ ~flushDue
    /\ flushDue' = TRUE
    /\ hist' = [hist EXCEPT !.burst = EmptyMap, !.early = FALSE]
    /\ Quiet
    /\ UNCHANGED <<git, flushers, diffCall, watch, disk, stateFile, cfg, phase, states, cache, isPaused,
                   metrics, pendingChanges, flushChan, bp, bm, tasks, clock, budget>>

\* Start, case <-ticker.C: checkAndFlush finds pending changes and the flush
\* interval elapsed since the last flush.  The task runs until ctx is done,
\* and Stop does not cancel ctx.
TickFlush ==
    /\ cfg.batching
    /\ bp.pc = "idle"
    /\ flushDue
    /\ TakeBatch
    /\ Quiet
    /\ UNCHANGED <<git, flushers, diffCall, watch, disk, stateFile, cfg, phase, states, cache, isPaused, metrics,
                   flushChan, bm, tasks, clock, budget>>

\* Start, case <-bp.flushChan: flush, which returns at once when nothing is pending
TriggerFlush ==
    /\ cfg.batching
    /\ bp.pc = "idle"
    /\ flushChan = 1
    /\ flushChan' = 0
    /\ IF pendingChanges = EmptyMap
       THEN UNCHANGED <<bp, pendingChanges, hist, flushDue>>
       ELSE TakeBatch
    /\ Quiet
    /\ UNCHANGED <<git, flushers, diffCall, watch, disk, stateFile, cfg, phase, states, cache, isPaused, metrics,
                   bm, tasks, clock, budget>>

\* processBatch, one iteration of its loop: processFileImmediate for a Create
\* or Modify, handleRemoval for a Delete
ProcessChange(parseOk, fails) ==
    /\ bp.pc = "processing"
    /\ bp.idx <= Len(bp.changes)
    /\ LET change == bp.changes[bp.idx]
           e == IF change.Type = "Delete"
                THEN handleRemoval(Engine, change.Path)
                ELSE processFileImmediate(Engine, change.Path, parseOk, fails)
           o == [Observe("file", change.Path, e) EXCEPT
                    !.parseFailed = (/\ change.Type # "Delete"
                                     /\ ~parseOk
                                     /\ HasChanged(states, disk, change.Path) = "yes")]
       IN  /\ states' = e.states
           /\ cache' = e.cache
           /\ metrics' = e.metrics
           /\ sinkLog' = e.ops
           /\ obs' = o
           /\ bp' = [bp EXCEPT !.idx = @ + 1,
                               !.failed = @ \/ o.dErrors > 0
                                            \/ \E i \in DOMAIN e.ops : ~e.ops[i].ok]
    /\ UNCHANGED <<git, flushers, diffCall, watch, flushDue, hist, disk, stateFile, cfg, phase, isPaused, pendingChanges,
                   flushChan, bm, tasks, clock, budget>>

\* what EnhancedMonitor.processBatch returns: nil, whatever happened to its files
processBatchFails(failed) == FALSE

\* processBatch returns; flush then calls handleFailedBatch on an error and
\* updateMetrics in both cases
ProcessBatchReturns ==
    /\ bp.pc = "processing"
    /\ bp.idx > Len(bp.changes)
    /\ LET err == processBatchFails(bp.failed)
           pending == IF err THEN handleFailedBatch(pendingChanges, bp.changes)
                      ELSE pendingChanges
       IN  /\ pendingChanges' = pending
           /\ bm' = updateMetrics(bm, Len(bp.changes), err)
           /\ obs' = [NoObs EXCEPT !.kind = "flush",
                         !.paused = isPaused, !.failed = bp.failed, !.err = err,
                         !.dBatchErrors = bm'.Errors - bm.Errors,
                         !.requeued = \A i \in DOMAIN bp.changes :
                                         bp.changes[i].Path \in DOMAIN pending]
    /\ sinkLog' = <<>>
    /\ bp' = IdleFlush
    /\ UNCHANGED <<git, flushers, diffCall, watch, flushDue, hist, disk, stateFile, cfg, phase, states, cache, isPaused, metrics,
                   flushChan, tasks, clock, budget>>

\* ------------------------------------------ the coalescer on its own
\* BatchProcessor.Add called with a fresh change for p
Add(p) ==
    /\ phase = "running"
    /\ budget.events > 0
    /\ budget' = [budget EXCEPT !.events = @ - 1]
    /\ LET change == FileChange(p, clock)
           pending == AddChange(pendingChanges, change)
       IN  /\ pendingChanges' = pending
           /\ flushChan' = IF Cardinality(DOMAIN pending) >= BatchSize
                           THEN TrySend(flushChan) ELSE flushChan
           /\ hist' = HistAfterAdd(hist, change)
    /\ clock' = clock + 1
    /\ Quiet
    /\ UNCHANGED <<git, flushers, diffCall, watch, flushDue, disk, stateFile, cfg, phase, states, cache, isPaused, metrics,
                   bp, bm, tasks>>

\* ForceFlush: the non-blocking send on flushChan
ForceFlush ==
    /\ phase = "running"
    /\ flushChan' = TrySend(flushChan)
    /\ flushChan' # flushChan
    /\ Quiet
    /\ UNCHANGED <<git, flushers, diffCall, watch, flushDue, hist, disk, stateFile, cfg, phase, states, cache, isPaused, metrics,
                   pendingChanges, bp, bm, tasks, clock, budget>>

\* the failed batches each change was in, after one more batch
FailsAfter(fails, changes) ==
    [ts \in (DOMAIN fails) \cup {changes[i].Timestamp : i \in DOMAIN changes} |->
        IF \E i \in DOMAIN changes : changes[i].Timestamp = ts
        THEN LET c == CHOOSE c \in Range(changes) : c.Timestamp = ts
             IN  [path |-> c.Path, n |-> Get(fails, ts, [n |-> 0]).n + 1]
        ELSE fails[ts]]

\* the failed batches in a row each path was in, after one more batch; a
\* fresh change for a path that was dropped starts a new row
PathFailsAfter(pfails, changes, err) ==
    [q \in (DOMAIN pfails) \cup {changes[i].Path : i \in DOMAIN changes} |->
        IF \E i \in DOMAIN changes : changes[i].Path = q
        THEN LET c == CHOOSE c \in Range(changes) : c.Path = q
                 n == Get(pfails, q, 0)
             IN  IF ~err THEN 0
                 ELSE IF c.Retries = 0 /\ n >= MaxRetries THEN 1 ELSE n + 1
        ELSE pfails[q]]

\* flush, after the lock is released: the processFunc handed to
\* NewBatchProcessor returns nil or an error; handleFailedBatch on an error,
\* updateMetrics in both cases
ProcessFuncReturns(err) ==
    /\ bp.pc = "processing"
    /\ pendingChanges' = IF err THEN handleFailedBatch(pendingChanges, bp.changes)
                         ELSE pendingChanges
    /\ bm' = updateMetrics(bm, Len(bp.changes), err)
    /\ hist' = [hist EXCEPT
                  !.fails = IF err THEN FailsAfter(@, bp.changes) ELSE @,
                  !.pfails = PathFailsAfter(@, bp.changes, err)]
    /\ bp' = IdleFlush
    /\ Quiet
    /\ UNCHANGED <<git, flushers, diffCall, watch, flushDue, disk, stateFile, cfg, phase, states, cache, isPaused, metrics,
                   flushChan, tasks, clock, budget>>

\* ---------------------------------------------- the tracker on its own
\* a successful UpdateState(p): the file can be read
UpdateStateCall(p) ==
    /\ p \in DOMAIN disk
    /\ budget.events > 0
    /\ budget' = [budget EXCEPT !.events = @ - 1]
    /\ states' = UpdateState(states, disk, p)
    /\ hist' = [hist EXCEPT !.loaded = FALSE]
    /\ Quiet
    /\ UNCHANGED <<git, flushers, diffCall, watch, flushDue, disk, stateFile, cfg, phase, cache, isPaused, metrics,
                   pendingChanges, flushChan, bp, bm, tasks, clock>>

RemoveStateCall(p) ==
    /\ budget.events > 0
    /\ budget' = [budget EXCEPT !.events = @ - 1]
    /\ states' = RemoveState(states, p)
    /\ hist' = [hist EXCEPT !.loaded = FALSE]
    /\ Quiet
    /\ UNCHANGED <<git, flushers, diffCall, watch, flushDue, disk, stateFile, cfg, phase, cache, isPaused, metrics,
                   pendingChanges, flushChan, bp, bm, tasks, clock>>

\* a successful SaveState
SaveStateCall ==
    /\ stateFile' \in SaveState(states)
    /\ hist' = [hist EXCEPT !.saved = [states |-> states, disk |-> disk],
                            !.loaded = FALSE]
    /\ Quiet
    /\ UNCHANGED <<git, flushers, diffCall, watch, flushDue, disk, cfg, phase, states, cache, isPaused, metrics,
                   pendingChanges, flushChan, bp, bm, tasks, clock, budget>>

\* LoadState of the saved file into a fresh tracker
LoadStateCall ==
    /\ stateFile.present
    /\ budget.restarts > 0
    /\ budget' = [budget EXCEPT !.restarts = @ - 1]
    /\ states' = LoadState(NewFileTracker, stateFile)
    /\ hist' = [hist EXCEPT !.loaded = TRUE]
    /\ Quiet
    /\ UNCHANGED <<git, flushers, diffCall, watch, flushDue, disk, stateFile, cfg, phase, cache, isPaused, metrics,
                   pendingChanges, flushChan, bp, bm, tasks, clock>>

\* ------------------------------------------------------------ lifecycle
\* Monitor.Stop: close stopChan, wait for the watcher and the periodic-save
\* task, save the final state
Stop ==
    /\ phase = "running"
    /\ tasks["watcher"].pc = "idle"
    /\ phase' = "stopped"
    /\ stateFile' \in SaveState(states)
    /\ Quiet
    /\ UNCHANGED <<git, flushers, diffCall, watch, flushDue, hist, disk, cfg, states, cache, isPaused, metrics,
                   pendingChanges, flushChan, bp, bm, tasks, clock, budget>>

\* the process exits and is started again on the same tree: NewEnhancedMonitor
\* (NewMonitor loads the state file) and Start
Restart ==
    /\ phase = "stopped"
    /\ budget.restarts > 0
    /\ budget' = [budget EXCEPT !.restarts = @ - 1]
    /\ phase' = "running"
    /\ states' = LoadState(NewFileTracker, stateFile)
    /\ cache' = NewDiffAnalyzer
    /\ isPaused' = FALSE
    /\ metrics' = NewMetricsCollector
    /\ pendingChanges' = EmptyMap
    /\ flushChan' = 0
    /\ bp' = IdleFlush
    /\ bm' = NewBatchMetrics
    /\ flushDue' = FALSE
    /\ tasks' = [t \in DOMAIN tasks |-> IdleTask]
    /\ Quiet
    /\ UNCHANGED <<git, flushers, diffCall, watch, hist, disk, stateFile, cfg, clock>>

\* ------------------------------------------------------------------ Next
\* the engine with batching off: every event is processed on the task that
\* delivers it
NextDirect ==
    \/ \E p \in Paths : \E c \in Bodies(p), m \in Times(p) : Write(p, c, m)
    \/ \E p \in Paths : Remove(p)
    \/ \E t \in DOMAIN tasks, p \in Paths : FileEvent(t, p)
    \/ \E t \in DOMAIN tasks, parseOk \in BOOLEAN, fails \in SinkFailures : HandleFile(t, parseOk, fails)
    \/ \E t \in DOMAIN tasks, p \in Paths : RemovalEvent(t, p)
    \/ Pause
    \/ Resume
    \/ Stop
    \/ Restart

\* a.ts exists, b.ts does not
InitDirect ==
    InitWith(Put(EmptyMap, "/t/a.ts", [bytes |-> 1, mtime |-> 1]), FALSE, {"watcher"},
             [disk |-> MaxDiskOps, events |-> MaxEvents, restarts |-> MaxRestarts])

Spec == InitDirect /\ [][NextDirect]_vars

\* the engine with batching on: events go through the coalescer
NextBatch ==
    \/ \E p \in Paths : \E c \in BatchBodies(p) : Write(p, c, 1)
    \/ \E p \in Paths : Remove(p)
    \/ \E t \in DOMAIN tasks, p \in Paths : FileEvent(t, p)
    \/ \E t \in DOMAIN tasks : HandleAdd(t)
    \/ \E t \in DOMAIN tasks, p \in Paths : RemovalEvent(t, p)
    \/ IntervalElapses
    \/ TickFlush
    \/ TriggerFlush
    \/ \E parseOk \in BOOLEAN, fails \in SinkFailures : ProcessChange(parseOk, fails)
    \/ ProcessBatchReturns
    \/ Stop

\* a.ts and b.ts exist
InitBatch ==
    InitWith([p \in Paths |-> [bytes |-> 1, mtime |-> 1]], TRUE, {"watcher"},
             [disk |-> MaxBatchDiskOps, events |-> MaxEvents, restarts |-> 0])

SpecBatch == InitBatch /\ [][NextBatch]_vars

\* the coalescer with a processFunc that may fail
NextBP ==
    \/ \E p \in Paths : Add(p)
    \/ ForceFlush
    \/ IntervalElapses
    \/ TickFlush
    \/ TriggerFlush
    \/ \E err \in BOOLEAN : ProcessFuncReturns(err)

InitBP ==
    InitWith(EmptyMap, TRUE, {},
             [disk |-> 0, events |-> MaxEvents, restarts |-> 0])

SpecBP == InitBP /\ [][NextBP]_vars

\* the tracker driven through its own operations
NextTracker ==
    \/ \E p \in Paths : \E c \in Bodies(p), m \in Times(p) : Write(p, c, m)
    \/ \E p \in Paths : Remove(p)
    \/ \E p \in Paths : UpdateStateCall(p)
    \/ \E p \in Paths : RemoveStateCall(p)
    \/ SaveStateCall
    \/ LoadStateCall

InitTracker ==
    InitWith(Put(EmptyMap, "/t/a.ts", [bytes |-> 1, mtime |-> 1]), FALSE, {},
             [disk |-> MaxDiskOps, events |-> MaxEvents, restarts |-> MaxRestarts])

SpecTracker == InitTracker /\ [][NextTracker]_vars

\* ---- the DiffAnalyzer alone: AnalyzeChanges on parses of any shape ----

\* the entities the parser reports for a.ts: f, f moved to other lines, g;
\* a class C, C with one more method; an interface I
DiffFunctions == {FunctionEntity("f", "a.ts", 1), FunctionEntity("f", "a.ts", 3),
                  FunctionEntity("g", "a.ts", 1)}
FuncLists ==
    {<<>>} \cup {<<x>> : x \in DiffFunctions}
           \cup ({<<x, y>> : x \in DiffFunctions, y \in DiffFunctions}
                    \ {<<x, x>> : x \in DiffFunctions})
ClassLists == {<<>>, <<ClassEntity("C", "a.ts", 5, <<"m">>)>>,
               <<ClassEntity("C", "a.ts", 5, <<"m", "n">>)>>}
InterfaceLists == {<<>>, <<InterfaceEntity("I", "a.ts", <<"x">>)>>}

\* the parses TreeSitterDriver.Parse may return for a path
DiffParses(p) ==
    IF p = "/t/a.ts"
    THEN {[FilePath |-> Rel(p), Language |-> "ts", Funcs |-> fs,
           Imports |-> <<[Module |-> "m", FilePath |-> Rel(p)]>>,
           Classes |-> cs, Interfaces |-> is] :
             fs \in FuncLists, cs \in ClassLists, is \in InterfaceLists}
    ELSE {[Parse(p, 1) EXCEPT !.FilePath = Rel(p)]}

\* a call of AnalyzeChanges(p, pf)
AnalyzeCall(p, pf) ==
    /\ diffCall.n < MaxCalls
    /\ LET r == AnalyzeChanges(cache, p, pf) IN
       /\ cache' = r.cache
       /\ diffCall' = [kind |-> "analyze", n |-> diffCall.n + 1, path |-> p,
                       new |-> pf, before |-> cache, changes |-> r.changes,
                       hasChanges |-> r.hasChanges,
                       latest |-> IF r.hasChanges THEN Put(diffCall.latest, p, pf)
                                  ELSE diffCall.latest]
    /\ UNCHANGED <<disk, stateFile, cfg, phase, states, isPaused, metrics,
                   pendingChanges, flushChan, bp, bm, tasks, clock, budget,
                   sinkLog, obs, hist, flushDue, watch, flushers, git>>

\* a call of RemoveFromCache(p)
RemoveFromCacheCall(p) ==
    /\ diffCall.n < MaxCalls
    /\ p \in DOMAIN cache
    /\ cache' = RemoveFromCache(cache, p)
    /\ diffCall' = [kind |-> "drop", n |-> diffCall.n + 1, path |-> p,
                    before |-> cache, latest |-> Del(diffCall.latest, p)]
    /\ UNCHANGED <<disk, stateFile, cfg, phase, states, isPaused, metrics,
                   pendingChanges, flushChan, bp, bm, tasks, clock, budget,
                   sinkLog, obs, hist, flushDue, watch, flushers, git>>

NextDiff ==
    \/ \E p \in Paths : \E pf \in DiffParses(p) : AnalyzeCall(p, pf)
    \/ \E p \in Paths : RemoveFromCacheCall(p)

InitDiff ==
    InitWith(Put(EmptyMap, "/t/a.ts", [bytes |-> 1, mtime |-> 1]), FALSE, {},
             [disk |-> MaxDiskOps, events |-> MaxEvents, restarts |-> MaxRestarts])

SpecDiff == InitDiff /\ [][NextDiff]_vars

\* ---- processFileImmediate from the parse on, for parses of any shape ----

\* the parses handed over for a.ts: each list of functions, alone or with a
\* class and an interface
ApplyParses ==
    {pf \in DiffParses("/t/a.ts") :
        /\ pf.Funcs \in {<<FunctionEntity("f", "a.ts", 1)>>,
                          <<FunctionEntity("f", "a.ts", 3)>>,
                          <<FunctionEntity("g", "a.ts", 1)>>,
                          <<FunctionEntity("f", "a.ts", 1), FunctionEntity("g", "a.ts", 1)>>}
        /\ pf.Classes # <<ClassEntity("C", "a.ts", 5, <<"m", "n">>)>>
        /\ (pf.Classes = <<>>) <=> (pf.Interfaces = <<>>)}

\* what the sinks refuse during one call: upserts by name, the embeddings
ApplyFailures == SUBSET {"f", "embeddings"}

\* processFileImmediate for a.ts once the parser has returned pf
ApplyParseCall(pf, embeddingGen, fails) ==
    /\ diffCall.n < MaxCalls
    /\ LET p == "/t/a.ts"
           e == applyParse(Engine, p, pf, cfg.diff, embeddingGen, fails)
           r == AnalyzeChanges(cache, p, pf)
       IN  /\ cache' = e.cache
           /\ states' = e.states
           /\ sinkLog' = e.ops
           /\ diffCall' = [kind |-> "apply", n |-> diffCall.n + 1, path |-> p,
                           new |-> pf, before |-> cache, diff |-> cfg.diff,
                           embeddingGen |-> embeddingGen, fails |-> fails,
                           hasChanges |-> r.hasChanges, changes |-> r.changes,
                           cleanOps |-> applyParse(Engine, p, pf, cfg.diff,
                                                   embeddingGen, {}).ops,
                           committed |-> e.states # states,
                           latest |-> diffCall.latest]
    /\ UNCHANGED <<disk, stateFile, cfg, phase, isPaused, metrics,
                   pendingChanges, flushChan, bp, bm, tasks, clock, budget,
                   obs, hist, flushDue, watch, flushers, git>>

NextApply ==
    \E pf \in ApplyParses, embeddingGen \in BOOLEAN, fails \in ApplyFailures :
        ApplyParseCall(pf, embeddingGen, fails)

InitApply ==
    InitWith(Put(EmptyMap, "/t/a.ts", [bytes |-> 1, mtime |-> 1]), FALSE, {},
             [disk |-> MaxDiskOps, events |-> MaxEvents, restarts |-> MaxRestarts])

SpecApply == InitApply /\ [][NextApply]_vars

\* ---- the watcher alone: Start's walk, new directories, events ----

\* the directories and files the tree may hold; node_modules is in the skip
\* list, r.md is not a supported file
Dirs == {"/t", "/t/d", "/t/d/s", "/t/node_modules"}
WatchFiles == {"/t/d/c.ts", "/t/d/r.md", "/t/d/s/e.ts", "/t/node_modules/m.ts"}

\* filepath.Dir
ParentDir(x) ==
    CASE x = "/t/d" -> "/t"
      [] x = "/t/node_modules" -> "/t"
      [] x = "/t/d/s" -> "/t/d"
      [] x = "/t/d/c.ts" -> "/t/d"
      [] x = "/t/d/r.md" -> "/t/d"
      [] x = "/t/d/s/e.ts" -> "/t/d/s"
      [] x = "/t/node_modules/m.ts" -> "/t/node_modules"
      [] OTHER -> "/"

\* info.Name() of a directory
BaseName(d) ==
    CASE d = "/t" -> "t"
      [] d = "/t/d" -> "d"
      [] d = "/t/d/s" -> "s"
      [] d = "/t/node_modules" -> "node_modules"
      [] OTHER -> ""

\* filepath.Ext
Ext(f) == IF f = "/t/d/r.md" THEN ".md" ELSE ".ts"

shouldSkipDir(name) ==
    name \in {"node_modules", ".git", "dist", "build", ".next", "coverage",
              "vendor", ".vscode", ".idea", "__pycache__", ".pytest_cache"}

isSupportedFile(path) == Ext(path) \in {".ts", ".tsx", ".js", ".jsx", ".css", ".scss"}

\* filepath.Walk visits a directory before its entries, the entries in
\* lexical order
WalkOrder == <<"/t", "/t/d", "/t/d/s", "/t/node_modules">>

\* The walk of Start from the i-th directory on. A directory is visited when
\* its parent was entered; a skipped directory is not entered; the first
\* watch that cannot be added ends the walk with the error.
RECURSIVE Walk(_, _, _, _)
Walk(i, tree, failing, acc) ==
    IF i > Len(WalkOrder) \/ acc.err THEN acc
    ELSE LET d == WalkOrder[i] IN
         IF d \notin tree \/ (d # RootPath /\ ParentDir(d) \notin acc.watched)
         THEN Walk(i + 1, tree, failing, acc)
         ELSE IF shouldSkipDir(BaseName(d))
         THEN Walk(i + 1, tree, failing, acc)
         ELSE IF d \in failing
         THEN [acc EXCEPT !.err = TRUE, !.failed = @ \cup {d}]
         ELSE Walk(i + 1, tree, failing, [acc EXCEPT !.watched = @ \cup {d}])

engineVars == <<disk, stateFile, cfg, phase, states, cache, isPaused, metrics,
                pendingChanges, flushChan, bp, bm, tasks, clock, budget,
                sinkLog, obs, hist, flushDue, diffCall, flushers, git>>

\* Monitor.Start: walk the tree and add a watch on every directory; the
\* watcher task is started only when the walk returned no error. failing are
\* the directories on which watcher.Add returns an error.
Start(failing) ==
    /\ watch.started = "init"
    /\ LET r == Walk(1, watch.dirs, failing, [watched |-> {}, failed |-> {}, err |-> FALSE]) IN
       watch' = [watch EXCEPT !.watched = r.watched,
                              !.failed = r.failed,
                              !.started = IF r.err THEN "failed" ELSE "running"]
    /\ UNCHANGED engineVars

\* a directory is created under the running monitor; the watcher reports it
\* when it has a watch on the parent
Mkdir(d) ==
    /\ watch.started = "running"
    /\ d \notin watch.dirs
    /\ ParentDir(d) \in watch.dirs
    /\ ParentDir(d) \in watch.watched => Len(watch.events) < MaxQueue
    /\ watch' = [watch EXCEPT !.dirs = @ \cup {d},
                              !.created = @ \cup {d},
                              !.events = IF ParentDir(d) \in watch.watched
                                         THEN Append(@, [op |-> "Create", name |-> d])
                                         ELSE @]
    /\ UNCHANGED engineVars

\* a file is created or written under the running monitor; the watcher
\* reports it when it has a watch on the file's directory
WriteFile(f) ==
    /\ watch.started = "running"
    /\ ParentDir(f) \in watch.dirs
    /\ ParentDir(f) \in watch.watched => Len(watch.events) < MaxQueue
    /\ watch' = [watch EXCEPT !.files = @ \cup {f},
                              !.events = IF ParentDir(f) \in watch.watched
                                         THEN Append(@, [op |-> IF f \in watch.files
                                                                THEN "Write" ELSE "Create",
                                                         name |-> f])
                                         ELSE @]
    /\ UNCHANGED engineVars

\* Monitor.handleEvent for a Create or Write event: a created directory that
\* is not skipped gets a watch (a failure is logged), nothing else is done
\* for it; a supported file is passed to the fileHandler.
handleEvent(addOk) ==
    /\ watch.started = "running"
    /\ watch.events # <<>>
    /\ LET event == Head(watch.events)
           rest == [watch EXCEPT !.events = Tail(@)] IN
       watch' = IF event.op = "Create" /\ event.name \in watch.dirs
                THEN IF shouldSkipDir(BaseName(event.name)) THEN rest
                     ELSE IF addOk
                     THEN [rest EXCEPT !.watched = @ \cup {event.name}]
                     ELSE [rest EXCEPT !.failed = @ \cup {event.name}]
                ELSE IF isSupportedFile(event.name)
                     THEN [rest EXCEPT !.handled = @ \cup {event.name}]
                     ELSE rest
    /\ UNCHANGED engineVars

NextWatch ==
    \/ \E failing \in SUBSET watch.dirs : Start(failing)
    \/ \E d \in Dirs : Mkdir(d)
    \/ \E f \in WatchFiles : WriteFile(f)
    \/ \E addOk \in BOOLEAN : handleEvent(addOk)

\* the trees Start may find: the root and any directories below it
InitialTrees ==
    {ds \in SUBSET Dirs : RootPath \in ds /\ \A d \in ds \ {RootPath} : ParentDir(d) \in ds}

InitWatch ==
    /\ InitRest(EmptyMap, FALSE, {},
                [disk |-> MaxDiskOps, events |-> MaxEvents, restarts |-> MaxRestarts])
    /\ watch \in {[NoWatch EXCEPT !.dirs = ds, !.watched = {}, !.started = "init"] :
                   ds \in InitialTrees}
    /\ git = NoGit

SpecWatch == InitWatch /\ [][NextWatch]_vars

\* ============================================================ properties
\* the changes in pending and in the batch being processed
Live == {pendingChanges[p] : p \in DOMAIN pendingChanges} \cup Range(bp.changes)

\* the file of p is what it was at the last save
Unmodified(p) ==
    /\ p \in DOMAIN disk
    /\ p \in DOMAIN hist.saved.disk
    /\ disk[p] = hist.saved.disk[p]

\* file node first, then entities, then relationships
Rank(op) ==
    IF op = "UpsertFile" THEN 0 ELSE IF op = "UpsertFunction" THEN 1 ELSE 2

\* C1 (change suppression): an event for a file whose bytes are those of its
\* committed fingerprint produces no upsert on the sink and does not increment
\* changes_detected, also when only the mtime changed.
ChangeSuppression ==
    (obs.kind = "file" /\ obs.sameBytes) => (obs.nOps = 0 /\ obs.dChanges = 0)

\* C2 (pause): between a Pause that has returned and the next Resume the
\* files_processed counter does not change, whatever the interleaving.
PausedCounterFrozen ==
    [][(isPaused /\ isPaused') => metrics'.filesProcessed = metrics.filesProcessed]_vars

\* C3 (pause gate frame): a handler that runs while the engine is paused leaves
\* the fingerprint map and the parse cache as they are and calls no sink
\* operation.
PauseGateFrame ==
    obs.paused => (~obs.touched /\ obs.nOps = 0 /\ sinkLog = <<>>)

\* C4 (coalescing): for every path that had events added since the previous
\* flush, the batch being processed holds exactly one entry, and it is the
\* last of those events.
CoalescingLatestWins ==
    bp.pc = "processing" =>
        \A p \in DOMAIN hist.window :
            \E i \in DOMAIN bp.changes :
                /\ bp.changes[i] = hist.window[p]
                /\ \A j \in DOMAIN bp.changes : bp.changes[j].Path = p => j = i

\* C5 as stated (retry bound by path): once a path has been in MaxRetries
\* failed batches in a row it is no longer pending, unless by a fresh event
\* added after the drop.
RetryBoundByPath ==
    \A p \in DOMAIN hist.pfails :
        hist.pfails[p] >= MaxRetries =>
            (p \notin DOMAIN pendingChanges \/ pendingChanges[p].Retries = 0)

\* C5 (retry bound by event): the retry count of a change is the number of
\* failed batches it was in; a change that was in MaxRetries failed batches is
\* dropped: it is not pending and is not handed to the processFunc again;
\* BatchMetrics.Errors has counted each of its failures; a change added later
\* for the same path starts with no retries.
RetryBoundByEvent ==
    /\ \A c \in Live :
          /\ c.Retries < MaxRetries
          /\ c.Retries = Get(hist.fails, c.Timestamp, [n |-> 0]).n
    /\ \A ts \in DOMAIN hist.fails :
          /\ hist.fails[ts].n <= MaxRetries
          /\ bm.Errors >= hist.fails[ts].n
          /\ hist.fails[ts].n = MaxRetries => \A c \in Live : c.Timestamp # ts

\* a change was dropped after MaxRetries failures and a later change for the
\* same path is in the batch being processed, with no retries
RetryBoundReached ==
    \E ts \in DOMAIN hist.fails :
        /\ hist.fails[ts].n = MaxRetries
        /\ bp.pc = "processing"
        /\ \E i \in DOMAIN bp.changes :
              /\ bp.changes[i].Path = hist.fails[ts].path
              /\ bp.changes[i].Timestamp > ts
              /\ bp.changes[i].Retries = 0

\* C6 (batch error reporting): when processing a file of the batch failed
\* (tracker check, parse or a sink upsert), processBatch reports an error:
\* BatchMetrics.Errors increases and every path of the batch is pending again.
BatchFailureReported ==
    (obs.kind = "flush" /\ obs.failed) =>
        (obs.err /\ obs.dBatchErrors = 1 /\ obs.requeued)

\* C7 (startup quiescence): after a restart on the saved state file, an event
\* for a file that equals its fingerprint leaves files_processed at 0 and
\* calls no sink operation.
StartupQuiescence ==
    (Restarted /\ obs.kind = "file" /\ obs.unchanged /\ obs.fpBefore = 0) =>
        (metrics.filesProcessed = 0 /\ sinkLog = <<>>)

\* C8 as stated (fingerprint round trip): after a load of the saved file into
\* a fresh tracker, HasChanged says no for every file tracked at the save and
\* not modified since, and yes for every path without a record at the save.
RoundTrip ==
    hist.loaded =>
        \A p \in Paths :
            /\ (p \in DOMAIN hist.saved.states /\ Unmodified(p))
                   => HasChanged(states, disk, p) = "no"
            /\ p \notin DOMAIN hist.saved.states
                   => HasChanged(states, disk, p) = "yes"

\* C8 (fingerprint round trip, amended): after a load of the saved file into a
\* fresh tracker, HasChanged says no for every file that was tracked at the
\* save, equalled its fingerprint then and was not modified since, and yes for
\* every path without a record at the save whose file exists.
RoundTripOfSyncedFiles ==
    hist.loaded =>
        \A p \in Paths :
            /\ (/\ p \in DOMAIN hist.saved.states
                /\ HasChanged(hist.saved.states, hist.saved.disk, p) = "no"
                /\ Unmodified(p))
                   => HasChanged(states, disk, p) = "no"
            /\ (p \notin DOMAIN hist.saved.states /\ p \in DOMAIN disk)
                   => HasChanged(states, disk, p) = "yes"

\* a tracker loaded from a file that held a record of an unmodified file,
\* with another file on disk that had no record
RoundTripReached ==
    /\ hist.loaded
    /\ \E p \in DOMAIN hist.saved.states :
          /\ HasChanged(hist.saved.states, hist.saved.disk, p) = "no"
          /\ Unmodified(p)
    /\ \E q \in DOMAIN disk : q \notin DOMAIN hist.saved.states

\* C9 (sink order): the sink calls of one processing start with the file
\* node, and no entity upsert follows a relationship upsert.
SinkOrder ==
    sinkLog # <<>> =>
        /\ sinkLog[1].op = "UpsertFile"
        /\ \A i, j \in DOMAIN sinkLog :
              i < j => Rank(sinkLog[i].op) <= Rank(sinkLog[j].op)

\* C10 (removal): once a remove event for a path has been handled neither the
\* tracker nor the parse cache holds the path.
RemovalEvictsRecordAndCache ==
    obs.kind = "removal" =>
        (obs.path \notin DOMAIN states /\ obs.path \notin DOMAIN cache)

\* C11 (final flush on stop): once Stop has returned no change is left in the
\* coalescer, pending or in a batch, and the saved state file holds the
\* fingerprints of the tracker.
StopFlushesAndSaves ==
    phase = "stopped" =>
        /\ pendingChanges = EmptyMap
        /\ bp.pc = "idle"
        /\ stateFile \in SaveState(states)

\* C12 (stop waits for all tasks): after Stop has returned no task changes the
\* tracker, the parse cache or the metrics, or calls the sink.
StoppedIsQuiet ==
    [][(phase = "stopped" /\ phase' = "stopped") =>
          (/\ states' = states
           /\ cache' = cache
           /\ metrics' = metrics
           /\ sinkLog' = <<>>)]_vars

\* C13 (no-op diff): in diff mode, processing a file whose parse has the
\* entities of its cached parse calls no sink operation.
NoOpDiff ==
    (obs.kind = "file" /\ cfg.diff /\ obs.sameParse) =>
        (obs.nOps = 0 /\ sinkLog = <<>>)

\* a changed file was parsed in diff mode and the parse equalled the cached one
NoOpDiffReached ==
    /\ obs.kind = "file"
    /\ cfg.diff
    /\ obs.sameParse
    /\ obs.dChanges = 1
    /\ obs.dErrors = 0

\* C15 (parse error): when the parser fails for a file the errors counter goes
\* up by one, the fingerprint map and the parse cache stay as they are, and no
\* sink operation is called.
ParseErrorHandled ==
    obs.parseFailed =>
        (/\ obs.dErrors = 1
         /\ ~obs.touched
         /\ ~obs.committed
         /\ obs.nOps = 0
         /\ sinkLog = <<>>)

\* the parser failed for a changed file that has a fingerprint record
ParseErrorReached ==
    /\ obs.kind = "file"
    /\ obs.parseFailed
    /\ obs.path \in DOMAIN states

\* C16 (sink errors are counted): the errors counter goes up by at least the
\* number of sink upserts that failed during the processing of a file.
SinkErrorsCounted ==
    obs.kind = "file" =>
        obs.dErrors >= Cardinality({i \in DOMAIN sinkLog : ~sinkLog[i].ok})

\* C17 (fingerprint lifecycle): a processing in which the parser failed, a
\* sink upsert failed or no sink operation was called neither creates nor
\* advances a fingerprint record.
CommitOnlyAfterApply ==
    (/\ obs.kind = "file"
     /\ \/ obs.parseFailed
        \/ sinkLog = <<>>
        \/ \E i \in DOMAIN sinkLog : ~sinkLog[i].ok)
        => ~obs.committed

\* C18 (per-path order): a remove event for a path is not handled while an
\* earlier modify event for the path waits in the coalescer.
RemovalAfterPendingModify ==
    obs.kind = "removal" =>
        /\ obs.path \notin DOMAIN pendingChanges
        /\ \A i \in DOMAIN bp.changes :
              i >= bp.idx => bp.changes[i].Path # obs.path

\* C14 (size-triggered flush): BatchSize changes added for distinct paths one
\* after the other, with no flush interval elapsing in between, are handed to
\* the processFunc in one batch: none of them was flushed before the last
\* was added.
BurstInOneFlush ==
    Cardinality(DOMAIN hist.burst) >= BatchSize => ~hist.early

\* a directory that is skipped itself or lies below a skipped directory
RECURSIVE Skipped(_)
Skipped(d) ==
    IF d \notin Dirs \/ d = RootPath THEN FALSE
    ELSE shouldSkipDir(BaseName(d)) \/ Skipped(ParentDir(d))

\* C19 (watch-add failure): a watch that cannot be added on a directory,
\* during the walk of Start or for a directory created later, never fails
\* the engine: the monitor is started and running.
WatchAddFailureTolerated ==
    watch.failed # {} => watch.started = "running"

\* C20 (watch expansion): once every delivered event is handled and no watch
\* failed to be added, every supported file that exists in a directory
\* created after Start, and not skipped, was passed to the fileHandler.
WatchExpansion ==
    (watch.started = "running" /\ watch.events = <<>> /\ watch.failed = {})
        => \A f \in watch.files :
               (isSupportedFile(f) /\ ParentDir(f) \in watch.created
                                   /\ ~Skipped(ParentDir(f)))
                   => f \in watch.handled

Keys(l) == {l[i].Name : i \in DOMAIN l}

\* the entity a map keyed by name holds for k: the last one of the list
LastOf(l, k) == l[CHOOSE i \in DOMAIN l :
                    l[i].Name = k /\ \A j \in DOMAIN l : l[j].Name = k => j <= i]

\* no name occurs twice in the list
UniqueKeys(l) == \A i, j \in DOMAIN l : l[i].Name = l[j].Name => i = j

\* the last call was AnalyzeChanges for a path that had a cached parse
Diffed == diffCall.kind = "analyze" /\ diffCall.path \in DOMAIN diffCall.before

\* the cached functions the last call compared with
OldFuncs == diffCall.before[diffCall.path].ParsedFile.Funcs

\* the structural fields of a function
FunctionStructure(f) == <<f.StartLine, f.EndLine, f.Signature, f.IsAsync, f.IsExport>>

OldParse == diffCall.before[diffCall.path].ParsedFile

\* C23 (every kind is compared): against a cached parse whose names are
\* unique, AnalyzeChanges returns true exactly when the new parse differs
\* from it in the functions, classes, interfaces or imports.
EveryKindCompared ==
    (Diffed /\ UniqueKeys(OldParse.Funcs) /\ UniqueKeys(diffCall.new.Funcs)) =>
        (diffCall.hasChanges <=>
            \/ Range(OldParse.Funcs) # Range(diffCall.new.Funcs)
            \/ Range(OldParse.Classes) # Range(diffCall.new.Classes)
            \/ Range(OldParse.Interfaces) # Range(diffCall.new.Interfaces)
            \/ Range(OldParse.Imports) # Range(diffCall.new.Imports))

\* the three lists of one kind have pairwise disjoint names, none twice
DisjointLists(added, modified, removed) ==
    /\ Keys(added) \cap Keys(modified) = {}
    /\ Keys(added) \cap Keys(removed) = {}
    /\ Keys(modified) \cap Keys(removed) = {}
    /\ UniqueKeys(added)
    /\ UniqueKeys(modified)
    /\ UniqueKeys(removed)

\* C29 (delta disjointness): for a new parse compared with a cached one, the
\* added, modified and removed lists of each kind have pairwise disjoint
\* names and no name twice, also when a list of the parse repeats a name.
DeltaDisjoint ==
    Diffed =>
      LET ch == diffCall.changes
      IN  /\ DisjointLists(ch.AddedFunctions, ch.ModifiedFunctions, ch.RemovedFunctions)
          /\ DisjointLists(ch.AddedClasses, ch.ModifiedClasses, ch.RemovedClasses)
          /\ DisjointLists(ch.AddedInterfaces, ch.ModifiedInterfaces, ch.RemovedInterfaces)

\* a parse that names f twice was compared: one f is modified, g is removed
RepeatedNameReached ==
    /\ Diffed
    /\ ~UniqueKeys(diffCall.new.Funcs)
    /\ Len(diffCall.changes.ModifiedFunctions) = 1
    /\ Len(diffCall.changes.RemovedFunctions) = 1

\* C30 (cache update): AnalyzeChanges stores the new parse for the path when
\* it returns true and leaves the whole cache alone when it returns false;
\* the entry of every path is the last parse of that path for which it
\* returned true.
CacheFollowsHasChanges ==
    /\ diffCall.kind = "analyze" =>
          cache = IF diffCall.hasChanges
                  THEN Put(diffCall.before, diffCall.path, [ParsedFile |-> diffCall.new])
                  ELSE diffCall.before
    /\ diffCall.kind # "none" =>
          /\ DOMAIN cache = DOMAIN diffCall.latest
          /\ \A p \in DOMAIN cache : cache[p].ParsedFile = diffCall.latest[p]

\* a second parse of a path was found without changes and not stored
CacheKeptReached ==
    /\ Diffed
    /\ ~diffCall.hasChanges
    /\ diffCall.new # OldParse
    /\ cache = diffCall.before

\* ---- properties of the sink calls of one processing ----

\* the last call was processFileImmediate (from the parse on) in diff mode
\* with a non-empty delta / with diff mode off
AppliedDelta == diffCall.kind = "apply" /\ diffCall.diff /\ diffCall.hasChanges
AppliedFull == diffCall.kind = "apply" /\ ~diffCall.diff

\* the upserts of kind op in the sink log, as the sequence of their names
RECURSIVE NamesOf(_, _)
NamesOf(log, op) ==
    IF log = <<>> THEN <<>>
    ELSE (IF Head(log).op = op THEN <<Head(log).name>> ELSE <<>>) \o NamesOf(Tail(log), op)

\* the names of a list of entities, as a sequence
NameSeq(l) == [i \in DOMAIN l |-> l[i].Name]
ModuleSeq(l) == [i \in DOMAIN l |-> l[i].Module]

\* s and t hold the same elements, each as often in s as in t
SameBag(s, t) ==
    \A x \in Range(s) \cup Range(t) :
        Cardinality({i \in DOMAIN s : s[i] = x}) = Cardinality({i \in DOMAIN t : t[i] = x})

\* C24 (delta application): in diff mode with a non-empty delta the sink
\* receives one upsert for each added and each modified entity of every kind
\* (functions, classes, interfaces, imports), and no other upsert.
DeltaApplied ==
    AppliedDelta =>
      LET ch == diffCall.changes
      IN  /\ SameBag(NamesOf(sinkLog, "UpsertFunction"),
                     NameSeq(ch.AddedFunctions \o ch.ModifiedFunctions))
          /\ SameBag(NamesOf(sinkLog, "UpsertClass"),
                     NameSeq(ch.AddedClasses \o ch.ModifiedClasses))
          /\ SameBag(NamesOf(sinkLog, "UpsertInterface"),
                     NameSeq(ch.AddedInterfaces \o ch.ModifiedInterfaces))
          /\ SameBag(NamesOf(sinkLog, "UpsertImport"), ModuleSeq(ch.AddedImports))

\* C25 (full-file upsert): with diff mode off the sink receives one upsert for
\* every function, import, class and interface of the parse.
FullFileUpsert ==
    AppliedFull =>
      /\ SameBag(NamesOf(sinkLog, "UpsertFunction"), NameSeq(diffCall.new.Funcs))
      /\ SameBag(NamesOf(sinkLog, "UpsertImport"), ModuleSeq(diffCall.new.Imports))
      /\ SameBag(NamesOf(sinkLog, "UpsertClass"), NameSeq(diffCall.new.Classes))
      /\ SameBag(NamesOf(sinkLog, "UpsertInterface"), NameSeq(diffCall.new.Interfaces))

\* C26 (embeddings in diff mode): with an embedding generator configured, a
\* processing in diff mode with a non-empty delta pushes the parse to the
\* embedding sink.
EmbeddingsInDiffMode ==
    (AppliedDelta /\ diffCall.embeddingGen) =>
        \E i \in DOMAIN sinkLog : sinkLog[i].op = "ProcessFile"

\* C28 (per-entity failure tolerance): the sink calls of one processing are
\* those made when nothing is refused: a refused upsert is followed by every
\* call that would have followed it.
FailureDoesNotAbort ==
    diffCall.kind = "apply" =>
        /\ Len(sinkLog) = Len(diffCall.cleanOps)
        /\ \A i \in DOMAIN sinkLog :
              /\ sinkLog[i].op = diffCall.cleanOps[i].op
              /\ sinkLog[i].name = diffCall.cleanOps[i].name
              /\ sinkLog[i].ok = (sinkLog[i].name \notin diffCall.fails)

\* the upsert of f was refused and the upsert of g was made after it
RefusedThenContinuedReached ==
    /\ diffCall.kind = "apply"
    /\ \E i, j \in DOMAIN sinkLog :
          /\ i < j
          /\ sinkLog[i].name = "f" /\ ~sinkLog[i].ok
          /\ sinkLog[j].name = "g" /\ sinkLog[j].op = "UpsertFunction"

\* C27 (change gate on a missing file): the handler run for a modify event
\* whose file no longer exists removes the fingerprint record of the path
\* and counts no error.
MissingFileIsRemoval ==
    (obs.kind = "file" /\ ~obs.paused /\ obs.path \notin DOMAIN disk) =>
        (obs.dErrors = 0 /\ obs.path \notin DOMAIN states)

\* ---- the engine with the watcher and the revision-control scanner ----
\* batching off; both tasks deliver events through processFile (Monitor's
\* event loop and watchGit), each on its own goroutine
NextDup ==
    \/ \E p \in Paths : \E c \in Bodies(p), m \in Times(p) : Write(p, c, m)
    \/ \E t \in DOMAIN tasks, p \in Paths : FileEvent(t, p)
    \/ \E t \in DOMAIN tasks, parseOk \in BOOLEAN, fails \in SinkFailures : HandleFile(t, parseOk, fails)

InitDup ==
    InitWith(Put(EmptyMap, "/t/a.ts", [bytes |-> 1, mtime |-> 1]), FALSE, {"watcher", "scanner"},
             [disk |-> MaxDiskOps, events |-> MaxEvents, restarts |-> 0])

SpecDup == InitDup /\ [][NextDup]_vars

\* C31 (duplicate absorption): when two tasks report the same change of p and
\* the first event has just been handled (its parse succeeded), the handling
\* of the second event, with the file untouched in between, is stopped by the
\* change gate: changes_detected is not incremented, no sink operation is
\* called, tracker and parse cache stay as they are; in diff mode too, also
\* when the first event produced an empty delta.
DuplicateAbsorbed ==
    [][\A t \in DOMAIN tasks :
          (/\ obs.kind = "file"
           /\ ~obs.parseFailed
           /\ tasks[t] = [pc |-> "checked", path |-> obs.path]
           /\ tasks'[t].pc = "idle")
          => (obs'.dChanges = 0 /\ obs'.nOps = 0 /\ ~obs'.touched)]_vars

\* C32 (re-enqueue is latest-wins): when the processFunc returns, with an
\* error or without, every path of the batch for which a fresh change was
\* added while the batch was being processed keeps that fresh change in
\* pending, with its own retry count.
RequeueLatestWins ==
    [][(bp.pc = "processing" /\ bp'.pc = "idle") =>
          \A p \in DOMAIN pendingChanges :
              (\E i \in DOMAIN bp.changes : bp.changes[i].Path = p)
              => (p \in DOMAIN pendingChanges' /\ pendingChanges'[p] = pendingChanges[p])]_vars

\* ---- the coalescer without flush channel (the second batch_processor.go) ----
\* Add: the change replaces the pending change of its path; at the size
\* threshold a goroutine is started on flush
AddSpawning(p) ==
    /\ phase = "running"
    /\ budget.events > 0
    /\ budget' = [budget EXCEPT !.events = @ - 1]
    /\ LET change == FileChange(p, clock)
           pending == AddChange(pendingChanges, change)
       IN  /\ pendingChanges' = pending
           /\ flushers' = IF Cardinality(DOMAIN pending) >= BatchSize
                          THEN [flushers EXCEPT !.spawned = @ + 1] ELSE flushers
           /\ hist' = HistAfterAdd(hist, change)
    /\ clock' = clock + 1
    /\ Quiet
    /\ UNCHANGED <<git, diffCall, watch, flushDue, disk, stateFile, cfg, phase, states, cache,
                   isPaused, metrics, flushChan, bp, bm, tasks>>

\* flush on a goroutine started by Add, up to the call of the processFunc:
\* it returns at once when nothing is pending
FlusherTakes ==
    /\ flushers.spawned > 0
    /\ IF pendingChanges = EmptyMap
       THEN /\ flushers' = [flushers EXCEPT !.spawned = @ - 1]
            /\ UNCHANGED <<pendingChanges, hist, flushDue>>
       ELSE /\ \E changes \in Orders({pendingChanges[p] : p \in DOMAIN pendingChanges}) :
                  flushers' = [spawned |-> flushers.spawned - 1,
                               processing |-> flushers.processing \cup {changes}]
            /\ pendingChanges' = EmptyMap
            /\ flushDue' = FALSE
            /\ hist' = HistAfterTake(hist, pendingChanges, BatchSize)
    /\ Quiet
    /\ UNCHANGED <<git, diffCall, watch, disk, stateFile, cfg, phase, states, cache, isPaused,
                   metrics, flushChan, bp, bm, tasks, clock, budget>>

\* flush on a goroutine started by Add, after the lock is released: the
\* processFunc returns for the batch changes
FlusherReturns(changes, err) ==
    /\ changes \in flushers.processing
    /\ flushers' = [flushers EXCEPT !.processing = @ \ {changes}]
    /\ pendingChanges' = IF err THEN handleFailedBatch(pendingChanges, changes)
                         ELSE pendingChanges
    /\ bm' = updateMetrics(bm, Len(changes), err)
    /\ hist' = [hist EXCEPT
                  !.fails = IF err THEN FailsAfter(@, changes) ELSE @,
                  !.pfails = PathFailsAfter(@, changes, err)]
    /\ Quiet
    /\ UNCHANGED <<git, diffCall, watch, flushDue, disk, stateFile, cfg, phase, states, cache,
                   isPaused, metrics, flushChan, bp, tasks, clock, budget>>

\* Start of the variant selects on the ticker only; its flush is bp
NextVariant ==
    \/ \E p \in Paths : AddSpawning(p)
    \/ FlusherTakes
    \/ \E changes \in flushers.processing, err \in BOOLEAN : FlusherReturns(changes, err)
    \/ IntervalElapses
    \/ TickFlush
    \/ \E err \in BOOLEAN : ProcessFuncReturns(err)

InitVariant ==
    InitWith(EmptyMap, TRUE, {},
             [disk |-> 0, events |-> MaxEvents, restarts |-> 0])

SpecVariant == InitVariant /\ [][NextVariant]_vars

\* the calls of the processFunc that have not returned
InProcess == flushers.processing \cup (IF bp.pc = "processing" THEN {bp.changes} ELSE {})

\* C33 (serial flush): at any time at most one call of the processFunc is in
\* progress, whatever the interleaving of Add, the ticker and the size
\* trigger.
SerialFlush == Cardinality(InProcess) <= 1

\* ---- two event tasks, processFileImmediate step by step ----
\* The watcher (Monitor.watch) and the scanner (watchGit) call processFile and
\* handleRemoval each on its own goroutine; no lock is held across the steps
\* of processFileImmediate.  A task is [pc, path] and, once it has them, the
\* parse pf and the file seen as UpdateState stat'ed and hashed it.
raceFrame == <<stateFile, cfg, phase, isPaused, pendingChanges, flushChan, bp, bm,
               clock, flushDue, watch, diffCall, flushers, git>>

\* processFile is called for p on task t (pause check passed)
RaceEvent(t, p) ==
    /\ tasks[t].pc = "idle"
    /\ budget.events > 0
    /\ budget' = [budget EXCEPT !.events = @ - 1]
    /\ tasks' = [tasks EXCEPT ![t] = [pc |-> "checked", path |-> p]]
    /\ hist' = [hist EXCEPT !.removed = @ \ {p}]
    /\ Quiet
    /\ UNCHANGED <<disk, states, cache, metrics>>
    /\ UNCHANGED raceFrame

\* handleRemoval is called for the removed file p on task t
RaceRemoval(t, p) ==
    /\ tasks[t].pc = "idle"
    /\ p \notin DOMAIN disk
    /\ budget.events > 0
    /\ budget' = [budget EXCEPT !.events = @ - 1]
    /\ states' = handleRemoval(Engine, p).states
    /\ hist' = [hist EXCEPT !.removed = @ \cup {p}]
    /\ Quiet
    /\ UNCHANGED <<disk, cache, metrics, tasks>>
    /\ UNCHANGED raceFrame

\* processFileImmediate: HasChanged, RecordError or RecordChange
Gate(t) ==
    /\ tasks[t].pc = "checked"
    /\ LET changed == HasChanged(states, disk, tasks[t].path) IN
       IF changed = "yes"
       THEN /\ metrics' = RecordChange(metrics)
            /\ tasks' = [tasks EXCEPT ![t].pc = "changed"]
       ELSE /\ metrics' = RecordFileProcessed(IF changed = "error"
                                              THEN RecordError(metrics) ELSE metrics)
            /\ tasks' = [tasks EXCEPT ![t] = IdleTask]
    /\ Quiet
    /\ UNCHANGED <<disk, states, cache, budget, hist>>
    /\ UNCHANGED raceFrame

\* processFileImmediate: driver.Parse reads the file as it is now
ParseStep(t, parseOk) ==
    /\ tasks[t].pc = "changed"
    /\ LET p == tasks[t].path IN
       IF p \in DOMAIN disk /\ parseOk
       THEN /\ tasks' = [tasks EXCEPT ![t] =
                           [pc |-> "parsed", path |-> p,
                            pf |-> [Parse(p, disk[p].bytes) EXCEPT !.FilePath = Rel(p)]]]
            /\ metrics' = metrics
       ELSE /\ tasks' = [tasks EXCEPT ![t] = IdleTask]
            /\ metrics' = RecordFileProcessed(RecordError(metrics))
    /\ Quiet
    /\ UNCHANGED <<disk, states, cache, budget, hist>>
    /\ UNCHANGED raceFrame

\* processFileImmediate: AnalyzeChanges and applyEntityChanges, or
\* updateAllEntities
DiffStep(t, fails) ==
    /\ tasks[t].pc = "parsed"
    /\ LET p  == tasks[t].path
           pf == tasks[t].pf
           r  == AnalyzeChanges(cache, p, pf)
       IN  IF cfg.diff
           THEN /\ cache' = r.cache
                /\ IF r.hasChanges
                   THEN /\ sinkLog' = applyEntityChanges(r.changes, fails)
                        /\ tasks' = [tasks EXCEPT ![t] = [pc |-> "applied", path |-> p]]
                        /\ metrics' = metrics
                   ELSE /\ sinkLog' = <<>>
                        /\ tasks' = [tasks EXCEPT ![t] = IdleTask]
                        /\ metrics' = RecordFileProcessed(metrics)
           ELSE /\ cache' = cache
                /\ sinkLog' = updateEntities(pf, fails, NoEmbeddingGen)
                /\ tasks' = [tasks EXCEPT ![t] = [pc |-> "applied", path |-> p]]
                /\ metrics' = metrics
    /\ obs' = NoObs
    /\ UNCHANGED <<disk, states, budget, hist>>
    /\ UNCHANGED raceFrame

\* UpdateState, before the lock: os.Stat and calculateHash
StatHash(t) ==
    /\ tasks[t].pc = "applied"
    /\ LET p == tasks[t].path IN
       IF p \in DOMAIN disk
       THEN /\ tasks' = [tasks EXCEPT ![t] = [pc |-> "hashed", path |-> p, seen |-> disk[p]]]
            /\ metrics' = metrics
       ELSE /\ tasks' = [tasks EXCEPT ![t] = IdleTask]
            /\ metrics' = RecordFileProcessed(metrics)
    /\ Quiet
    /\ UNCHANGED <<disk, states, cache, budget, hist>>
    /\ UNCHANGED raceFrame

\* UpdateState, under the lock: the record of what was stat'ed and hashed
CommitState(t) ==
    /\ tasks[t].pc = "hashed"
    /\ LET p == tasks[t].path IN
       states' = UpdateState(states, Put(EmptyMap, p, tasks[t].seen), p)
    /\ tasks' = [tasks EXCEPT ![t] = IdleTask]
    /\ metrics' = RecordFileProcessed(metrics)
    /\ Quiet
    /\ UNCHANGED <<disk, cache, budget, hist>>
    /\ UNCHANGED raceFrame

NextRace ==
    \/ \E p \in Paths : \E c \in Bodies(p), m \in Times(p) : Write(p, c, m)
    \/ \E p \in Paths : Remove(p)
    \/ \E t \in DOMAIN tasks, p \in Paths : RaceEvent(t, p)
    \/ \E t \in DOMAIN tasks, p \in Paths : RaceRemoval(t, p)
    \/ \E t \in DOMAIN tasks : Gate(t)
    \/ \E t \in DOMAIN tasks, parseOk \in BOOLEAN : ParseStep(t, parseOk)
    \/ \E t \in DOMAIN tasks, fails \in SinkFailures : DiffStep(t, fails)
    \/ \E t \in DOMAIN tasks : StatHash(t)
    \/ \E t \in DOMAIN tasks : CommitState(t)

InitRace ==
    InitWith(Put(EmptyMap, "/t/a.ts", [bytes |-> 1, mtime |-> 1]), FALSE, {"watcher", "scanner"},
             [disk |-> MaxDiskOps, events |-> MaxEvents, restarts |-> 0])

SpecRace == InitRace /\ [][NextRace]_vars

\* task t is between the change gate and the end of processFileImmediate
InPipeline(t) == tasks[t].pc \in {"changed", "parsed", "applied", "hashed"}

\* C34 (parse cache single writer): no two tasks are in the parse / diff /
\* apply pipeline of processFileImmediate for the same path at the same time.
SingleWriterPerPath ==
    \A t, u \in DOMAIN tasks :
        (t # u /\ InPipeline(t) /\ InPipeline(u)) => tasks[t].path # tasks[u].path

\* C39 (removal against concurrent processing): once the removal of p has
\* been handled, no later event has arrived for p and no handler is running,
\* the tracker has no record of the removed file p; a fingerprint commit that
\* started before the removal does not bring the record back.
RemovalIsFinal ==
    \A p \in Paths :
        (/\ p \in hist.removed
         /\ p \notin DOMAIN disk
         /\ \A t \in DOMAIN tasks : tasks[t].pc = "idle")
        => p \notin DOMAIN states

\* C35 (no stall under backpressure): an Add made while a batch is being
\* processed and the trigger channel is full completes without touching the
\* batch and stores its change in pending; and a change that is pending while
\* a batch is being processed is not lost: after every step it is still
\* pending, or in the batch handed to the processFunc, or replaced by a later
\* change for its path.
NoStallNoLoss ==
    [][/\ (bp.pc = "processing" /\ flushChan = 1 /\ clock' # clock)
          => (/\ bp' = bp
              /\ \E p \in Paths : /\ p \in DOMAIN pendingChanges'
                                  /\ pendingChanges'[p] = FileChange(p, clock))
       /\ \A p \in DOMAIN pendingChanges :
             bp.pc = "processing"
             => \/ pendingChanges[p] \in Live'
                \/ /\ p \in DOMAIN pendingChanges'
                   /\ pendingChanges'[p].Timestamp > pendingChanges[p].Timestamp]_vars

\* ---- the revision-control scanner: GitIntegration and watchGit ----
\* filepath.Join(gi.repoPath, path) for the paths git prints
Join(repoPath, path) ==
    IF path = "a.ts" THEN "/t/a.ts"
    ELSE IF path = "b.ts" THEN "/t/b.ts"
    ELSE "/t/d/r.md"

\* lines of `git status --porcelain`: <<X, Y, path>>, <<>> is the empty
\* last line
StatusLines == {<<" ", "M", "a.ts">>, <<"A", "D", "b.ts">>, <<" ", "D", "a.ts">>,
                <<"?", "?", "b.ts">>, <<"D", " ", "d/r.md">>, <<>>}

\* lines of `git diff --name-status`, split in fields
DiffLines == {<<"M", "a.ts">>, <<"D", "a.ts">>, <<"A", "b.ts">>, <<"D", "d/r.md">>,
              <<"R100", "a.ts", "b.ts">>, <<>>}

\* the outputs of a query: up to MaxLines lines
Outputs(lines) == UNION {[1..n -> lines] : n \in 0..MaxLines}

RECURSIVE parseStatusOutput(_)
parseStatusOutput(output) ==
    IF output = <<>> THEN <<>>
    ELSE LET line == Head(output)
             rest == parseStatusOutput(Tail(output))
         IN  IF Len(line) < 3 THEN rest
             ELSE LET status == {line[1], line[2]}
                      path == Join(RootPath, line[3])
                  IN  IF "A" \in status THEN <<[Path |-> path, Status |-> "A"]>> \o rest
                      ELSE IF "M" \in status THEN <<[Path |-> path, Status |-> "M"]>> \o rest
                      ELSE IF "D" \in status THEN <<[Path |-> path, Status |-> "D"]>> \o rest
                      ELSE rest

RECURSIVE parseDiffOutput(_)
parseDiffOutput(output) ==
    IF output = <<>> THEN <<>>
    ELSE LET parts == Head(output)
             rest == parseDiffOutput(Tail(output))
         IN  IF Len(parts) < 2 THEN rest
             ELSE <<[Path |-> Join(RootPath, parts[2]), Status |-> parts[1]]>> \o rest

\* a GetChangedFiles that moves lastCommit before it knows the changes
GetChangedFilesAdvancingFirst(lastCommit, currentCommit, headOk, queryOk, output) ==
    IF ~headOk THEN [err |-> TRUE, kind |-> "failed", changes |-> <<>>, lastCommit |-> lastCommit]
    ELSE IF currentCommit = lastCommit
    THEN IF ~queryOk
         THEN [err |-> TRUE, kind |-> "failed", changes |-> <<>>, lastCommit |-> lastCommit]
         ELSE [err |-> FALSE, kind |-> "status", changes |-> parseStatusOutput(output),
               lastCommit |-> lastCommit]
    ELSE IF ~queryOk
         THEN [err |-> TRUE, kind |-> "failed", changes |-> <<>>, lastCommit |-> currentCommit]
         ELSE [err |-> FALSE, kind |-> "diff", changes |-> parseDiffOutput(output),
               lastCommit |-> currentCommit]

\* GetChangedFiles: currentCommit is what rev-parse HEAD prints, output what
\* the status or diff query prints; headOk, queryOk: the command succeeds
GetChangedFiles(lastCommit, currentCommit, headOk, queryOk, output) ==
    IF ~headOk THEN [err |-> TRUE, kind |-> "failed", changes |-> <<>>, lastCommit |-> lastCommit]
    ELSE IF currentCommit = lastCommit
    THEN IF ~queryOk
         THEN [err |-> TRUE, kind |-> "failed", changes |-> <<>>, lastCommit |-> lastCommit]
         ELSE [err |-> FALSE, kind |-> "status", changes |-> parseStatusOutput(output),
               lastCommit |-> lastCommit]
    ELSE IF ~queryOk
         THEN [err |-> TRUE, kind |-> "failed", changes |-> <<>>, lastCommit |-> lastCommit]
         ELSE [err |-> FALSE, kind |-> "diff", changes |-> parseDiffOutput(output),
               lastCommit |-> currentCommit]

gitFrame == <<disk, stateFile, cfg, phase, cache, isPaused, metrics, bp, bm, tasks,
              sinkLog, obs, hist, flushDue, watch, diffCall, flushers>>

\* a commit is made in the working copy
Commit ==
    /\ git.head <= MaxCommits
    /\ git' = [git EXCEPT !.head = @ + 1]
    /\ UNCHANGED <<states, pendingChanges, flushChan, clock, budget>>
    /\ UNCHANGED gitFrame

\* watchGit, case <-ticker.C: GetChangedFiles; on an error the tick is over
GitScan(headOk, queryOk, output) ==
    /\ git.queue = <<>>
    /\ output \in (IF ~(headOk /\ queryOk) THEN {<<>>}
                   ELSE IF git.head = git.lastCommit THEN Outputs(StatusLines)
                   ELSE Outputs(DiffLines))
    /\ LET r == GetChangedFiles(git.lastCommit, git.head, headOk, queryOk, output) IN
       /\ budget.events >= Len(r.changes)
       /\ budget' = [budget EXCEPT !.events = @ - Len(r.changes)]
       /\ git' = [git EXCEPT !.lastCommit = r.lastCommit,
                             !.queue = r.changes,
                             !.last = [kind |-> r.kind, tick |-> ~git.last.tick,
                                       stored |-> git.lastCommit, head |-> git.head]]
    /\ UNCHANGED <<states, pendingChanges, flushChan, clock>>
    /\ UNCHANGED gitFrame

\* watchGit, one iteration of the loop over the changes: processFile (here
\* BatchProcessor.Add) for a supported file with status A or M, handleRemoval
\* for one with status D
GitDispatch ==
    /\ git.queue # <<>>
    /\ LET change == Head(git.queue)
           event == IF ~isSupportedFile(change.Path) THEN "none"
                    ELSE IF change.Status \in {"A", "M"} THEN "modify"
                    ELSE IF change.Status = "D" THEN "remove"
                    ELSE "none"
           pending == AddChange(pendingChanges, FileChange(change.Path, clock))
       IN  /\ git' = [git EXCEPT !.queue = Tail(@),
                                 !.sent = [event |-> event, path |-> change.Path]]
           /\ IF event = "modify"
              THEN /\ pendingChanges' = pending
                   /\ flushChan' = IF Cardinality(DOMAIN pending) >= BatchSize
                                   THEN TrySend(flushChan) ELSE flushChan
                   /\ clock' = clock + 1
                   /\ states' = states
              ELSE /\ states' = IF event = "remove"
                                THEN handleRemoval(Engine, change.Path).states
                                ELSE states
                   /\ UNCHANGED <<pendingChanges, flushChan, clock>>
    /\ UNCHANGED budget
    /\ UNCHANGED gitFrame

\* UpdateStateCall: the fingerprint commit that ends the processing of a file
NextGit ==
    \/ Commit
    \/ \E p \in Paths : UpdateStateCall(p)
    \/ \E headOk, queryOk \in BOOLEAN :
          \E output \in Outputs(StatusLines) \cup Outputs(DiffLines) :
             GitScan(headOk, queryOk, output)
    \/ GitDispatch

\* NewGitIntegration: lastCommit is HEAD; a.ts is tracked
InitGit ==
    /\ InitRest(Put(EmptyMap, "/t/a.ts", [bytes |-> 1, mtime |-> 1]), TRUE, {},
                [disk |-> 0, events |-> MaxEvents, restarts |-> 0])
    /\ watch = NoWatch
    /\ git = [NoGit EXCEPT !.head = 1, !.lastCommit = 1]

SpecGit == InitGit /\ [][NextGit]_vars

FairBP ==
    /\ WF_vars(IntervalElapses)
    /\ WF_vars(TickFlush)
    /\ WF_vars(TriggerFlush)
    /\ WF_vars(\E err \in BOOLEAN : ProcessFuncReturns(err))

SpecBPLive == SpecBP /\ FairBP

\* C37 (liveness): every change accepted by Add is eventually in a batch
\* handed to the processFunc, unless a later change for its path has replaced
\* it in pending.
EveryEventFlushed ==
    \A p \in Paths : \A ts \in 1..MaxEvents :
        (p \in DOMAIN pendingChanges /\ pendingChanges[p].Timestamp = ts)
        ~> (\/ \E i \in DOMAIN bp.changes : bp.changes[i].Timestamp = ts
            \/ p \in DOMAIN pendingChanges /\ pendingChanges[p].Timestamp > ts)

\* the times the change of timestamp ts was handed to the processFunc: once
\* for every failed batch it was in, once more when it is in the batch being
\* processed
TimesPassed(ts) ==
    Get(hist.fails, ts, [n |-> 0]).n
    + (IF bp.pc = "processing" /\ \E i \in DOMAIN bp.changes : bp.changes[i].Timestamp = ts
       THEN 1 ELSE 0)

\* C38 (invariant of the coalescer): pending holds one change per path, filed
\* under its own path, with 0, 1 or 2 retries; no change is in pending and in
\* the batch at once, and no change is handed to the processFunc more than
\* MaxRetries times.
PendingWellFormed ==
    /\ \A p \in DOMAIN pendingChanges :
          /\ pendingChanges[p].Path = p
          /\ pendingChanges[p].Retries \in 0..(MaxRetries - 1)
          /\ \A i \in DOMAIN bp.changes : bp.changes[i].Timestamp # pendingChanges[p].Timestamp
    /\ \A i, j \in DOMAIN bp.changes : bp.changes[i].Path = bp.changes[j].Path => i = j
    /\ \A ts \in 1..clock : TimesPassed(ts) <= MaxRetries

\* a change is handed to the processFunc for the third time while a fresh
\* change is pending
ThirdPassReached ==
    /\ bp.pc = "processing"
    /\ \E i \in DOMAIN bp.changes :
          bp.changes[i].Retries = MaxRetries - 1 /\ TimesPassed(bp.changes[i].Timestamp) = MaxRetries
    /\ \E p \in DOMAIN pendingChanges : pendingChanges[p].Retries = 0

\* ---- the control surface ----
\* EnhancedMonitor.IsRunning, which hides Monitor.IsRunning: it returns true
IsRunning == TRUE

\* EnhancedMonitor.IsPaused, under pauseMu
IsPaused == isPaused

\* C40 (lifecycle flags): IsRunning is true exactly while the monitor is
\* started and not stopped, so it is false once Stop has returned; a Pause or
\* a Resume changes IsPaused and never IsRunning.
RunningFlag ==
    [][/\ IsRunning' <=> (phase' = "running")
       /\ (IsPaused' # IsPaused) => (IsRunning' <=> IsRunning)]_vars

====
